---- MODULE Spec2Model ----
(***************************************************************************)
(* StoryWeaver AI: the story store (zustand), the text generation gateway  *)
(* (geminiService.ts), the editor handlers (StoryEditor.tsx) and the       *)
(* preview's export preparation (PreviewAndPDF), as state machines.        *)
(*                                                                         *)
(* Text is a sequence of one-character strings, so that trim, includes,    *)
(* split and the template literals are computed character by character.    *)
(* "a" stands for an Arabic letter, "E" and "N" are English letters.       *)
(***************************************************************************)
EXTENDS Integers, Sequences, FiniteSets, TLC

VARIABLES
    story,      \* the store's Story value (useStoryStore().story)
    issued,     \* every scene id handed out so far by an id generator
    lastOp,     \* history: the last store mutation and its arguments
    gw,             \* the call being made on its own: arguments, progress, result
    refiningState,  \* the editor's refiningState: <<>> (null) or <<[sceneId, field]>>
    batch,          \* the generateStoryFromImages call being made
    step,           \* App's step
    pv,             \* PreviewAndPDF's state and its content preparation
    mem,            \* the store's objects: Story objects, scene arrays and
                    \* scene objects by address, the address of the current
                    \* Story, and a Story a reader obtained earlier
    ed,             \* StoryEditor: the state of the mounted instance, the
                    \* file picker, and the handlers of any instance that
                    \* are awaiting something
    app             \* App's isLoading, MethodSelection's file picker, and the
                    \* image uploads and generations being awaited

storeVars == <<story, issued, lastOp>>
gatewayVars == <<gw>>
editorVars == <<refiningState>>
batchVars == <<batch>>
previewVars == <<step, pv>>
memVars == <<mem>>

vars == <<story, issued, lastOp, gw, refiningState, batch, step, pv, mem, ed, app>>

\* what an action of one part leaves alone
outsideStore == <<gw, refiningState, batch, step, pv, mem, ed, app>>
outsideGateway == <<story, issued, lastOp, refiningState, batch, step, pv, mem, ed, app>>
outsideBatch == <<story, lastOp, gw, refiningState, step, pv, mem, ed, app>>
outsidePreview == <<story, issued, lastOp, gw, refiningState, batch, mem, ed, app>>
outsideMem == <<gw, refiningState, batch, step, pv, ed, app>>
outsideEditor == <<batch, step, pv, mem, ed, app>>
\* what a handler of the mounted editor leaves alone
outsideUi == <<gw, batch, mem, app>>

(***************************************************************************)
(* Bounds of the model.                                                    *)
(***************************************************************************)
MaxIds == 3        \* scene ids that can be issued in one run
MaxScenes == 2     \* scenes held by the story at once
MaxReorderLen == 4 \* length of the lists reorderScenes is applied to
MaxSegs == 3         \* pieces a text given to the gateway is made of
MaxImages == 3       \* images given to one batch generation
MaxPreviewScenes == 2 \* scenes of a story that is previewed
MaxMutations == 3    \* store mutations followed object by object
MaxPending == 2       \* handlers of one kind awaiting at the same time
MaxRecorders == 2     \* MediaRecorders constructed
MaxNotices == 2       \* alert() calls counted
MaxMarkerSegs == 4    \* pieces a text given to sanitize is made of
MaxPicked == 2        \* image files picked at once in MethodSelection

(***************************************************************************)
(* Text                                                                    *)
(***************************************************************************)
NL == "\n"
SP == " "
Whitespace == {SP, NL}
EmptyText == <<>>
EnMarker == <<"[", "E", "N", "]">>          \* the literal '[EN]'

Min(S) == CHOOSE m \in S : \A o \in S : m <= o

\* String.prototype.trim
RECURSIVE TrimStart(_)
TrimStart(t) ==
    IF t # <<>> /\ Head(t) \in Whitespace THEN TrimStart(Tail(t)) ELSE t

RECURSIVE TrimEnd(_)
TrimEnd(t) ==
    IF t # <<>> /\ t[Len(t)] \in Whitespace
    THEN TrimEnd(SubSeq(t, 1, Len(t) - 1))
    ELSE t

Trim(t) == TrimEnd(TrimStart(t))

\* !text.trim()
IsBlank(t) == Trim(t) = <<>>

\* the positions at which pat occurs in t
Occurrences(t, pat) ==
    {i \in 1..(Len(t) - Len(pat) + 1) : SubSeq(t, i, i + Len(pat) - 1) = pat}

\* String.prototype.includes
Includes(t, pat) == Occurrences(t, pat) # {}

\* String.prototype.split with a non-empty separator
RECURSIVE Split(_, _)
Split(t, sep) ==
    IF Occurrences(t, sep) = {}
    THEN <<t>>
    ELSE LET i == Min(Occurrences(t, sep))
         IN  <<SubSeq(t, 1, i - 1)>>
                 \o Split(SubSeq(t, i + Len(sep), Len(t)), sep)

StartsWith(t, pat) == Len(t) >= Len(pat) /\ SubSeq(t, 1, Len(pat)) = pat

\* replace(/\*\*/g, ''): every pair of asterisks, left to right
RECURSIVE RemoveBold(_)
RemoveBold(t) ==
    IF Len(t) < 2 THEN t
    ELSE IF t[1] = "*" /\ t[2] = "*" THEN RemoveBold(SubSeq(t, 3, Len(t)))
    ELSE <<t[1]>> \o RemoveBold(Tail(t))

CommentOpen == <<"<", "!", "-", "-">>
CommentClose == <<"-", "-", ">">>

\* where a comment that opens at the head of t can close: `.` matches no
\* line terminator
CommentEnds(t) ==
    {j \in 5..(Len(t) - 2) :
        /\ SubSeq(t, j, j + 2) = CommentClose
        /\ \A i \in 5..(j - 1) : t[i] # NL}

\* replace(/<!--.*?-->/g, ''): leftmost matches, each as short as can be
RECURSIVE RemoveComments(_)
RemoveComments(t) ==
    IF t = <<>> THEN <<>>
    ELSE IF StartsWith(t, CommentOpen) /\ CommentEnds(t) # {}
    THEN RemoveComments(SubSeq(t, Min(CommentEnds(t)) + 3, Len(t)))
    ELSE <<t[1]>> \o RemoveComments(Tail(t))

(***************************************************************************)
(* Scenes and the Story (types.ts)                                         *)
(***************************************************************************)
Ids == 1..MaxIds
Undefined == "undefined"
\* `https://picsum.photos/seed/${Date.now()}/800/800`
PlaceholderUrl == <<"https://picsum.photos/seed/", "now", "/800/800">>
LanguageModes == {"ar", "bilingual"}

\* the default blank scene addScene() constructs; gid is generateId()'s result
DefaultScene(gid) ==
    [id |-> gid,
     media |-> <<[url |-> PlaceholderUrl, type |-> "image"]>>,
     narrative |-> EmptyText,
     dialogue |-> EmptyText,
     isAiGenerated |-> FALSE,
     audioUrl |-> Undefined]

InitialStory ==
    [studentName |-> EmptyText, grade |-> EmptyText, schoolName |-> EmptyText,
     title |-> EmptyText, languageMode |-> "bilingual", scenes |-> <<>>]

\* the story once StoryInput's form has been filled in and left
EnteredStory == [InitialStory EXCEPT !.studentName = <<"a">>, !.title = <<"a">>]

\* the ids generateId() can return: a random UUID (or the time-and-random
\* fallback), taken to be one never issued before
generateId(used) == Ids \ used

SceneIds(scenes) == {scenes[k].id : k \in 1..Len(scenes)}

(***************************************************************************)
(* The store's mutations, as functions from the held Story to the new one  *)
(***************************************************************************)
\* { ...state.story, ...meta } for a one-field meta
setStoryMeta(st, field, value) == [st EXCEPT ![field] = value]

setScenes(st, scenes) == [st EXCEPT !.scenes = scenes]

\* an addScene that makes the default scene whatever it is given
addSceneAlwaysDefault(st, supplied, gid) ==
    [st EXCEPT !.scenes = Append(@, DefaultScene(gid))]

\* supplied is <<>> (no argument) or <<scene>>; gid is used only without one
addScene(st, supplied, gid) ==
    [st EXCEPT !.scenes =
        Append(@, IF supplied # <<>> THEN supplied[1] ELSE DefaultScene(gid))]

removeScene(st, sceneId) ==
    [st EXCEPT !.scenes = SelectSeq(@, LAMBDA s : s.id # sceneId)]

\* an updateScene that makes a scene of the id when there is none
updateSceneUpserting(st, sceneId, field, value) ==
    IF sceneId \in SceneIds(st.scenes)
    THEN [st EXCEPT !.scenes =
             [k \in 1..Len(@) |->
                 IF @[k].id = sceneId THEN [@[k] EXCEPT ![field] = value] ELSE @[k]]]
    ELSE [st EXCEPT !.scenes = Append(@, [DefaultScene(sceneId) EXCEPT ![field] = value])]

updateScene(st, sceneId, field, value) ==
    [st EXCEPT !.scenes =
        [k \in 1..Len(@) |->
            IF @[k].id = sceneId THEN [@[k] EXCEPT ![field] = value] ELSE @[k]]]

\* Array.prototype.splice(start, 1) on a 0-based start: the array without the
\* element, and the removed elements (none when start is past the end)
SpliceOut(arr, start) ==
    IF start < Len(arr)
    THEN [rest |-> SubSeq(arr, 1, start) \o SubSeq(arr, start + 2, Len(arr)),
          removed |-> <<arr[start + 1]>>]
    ELSE [rest |-> arr, removed |-> <<>>]

\* Array.prototype.splice(start, 0, item): start is clamped to the length
SpliceIn(arr, start, item) ==
    LET at == IF start > Len(arr) THEN Len(arr) ELSE start
    IN  SubSeq(arr, 1, at) \o <<item>> \o SubSeq(arr, at + 1, Len(arr))

\* a reorder that inserts into the list it did not remove from
ReorderKeepingOriginal(scenes, startIndex, endIndex) ==
    LET out == SpliceOut(scenes, startIndex)
    IN  IF out.removed = <<>>
        THEN SpliceIn(scenes, endIndex, Undefined)
        ELSE SpliceIn(scenes, endIndex, out.removed[1])

\* a reorder that exchanges the two positions
ReorderSwapping(scenes, startIndex, endIndex) ==
    [k \in 1..Len(scenes) |->
        IF k = startIndex + 1 THEN scenes[endIndex + 1]
        ELSE IF k = endIndex + 1 THEN scenes[startIndex + 1]
        ELSE scenes[k]]

\* result = Array.from(scenes); [removed] = result.splice(startIndex, 1);
\* result.splice(endIndex, 0, removed)
Reorder(scenes, startIndex, endIndex) ==
    LET out == SpliceOut(scenes, startIndex)
    IN  IF out.removed = <<>>
        THEN SpliceIn(out.rest, endIndex, Undefined)
        ELSE SpliceIn(out.rest, endIndex, out.removed[1])

reorderScenes(st, startIndex, endIndex) ==
    [st EXCEPT !.scenes = Reorder(@, startIndex, endIndex)]

setAudio(st, sceneId, audioUrl) ==
    [st EXCEPT !.scenes =
        [k \in 1..Len(@) |->
            IF @[k].id = sceneId THEN [@[k] EXCEPT !.audioUrl = audioUrl] ELSE @[k]]]

(***************************************************************************)
(* The text generation gateway (geminiService.ts)                          *)
(***************************************************************************)
\* what ai.models.generateContent can do: reject, or resolve with a response
\* whose text is absent, or is the given text
AiError == [kind |-> "error", text |-> EmptyText]
AiNoText == [kind |-> "noText", text |-> EmptyText]
AiText(t) == [kind |-> "text", text |-> t]

\* the outcome of a call of an async function
Returned(outs) == [threw |-> FALSE, out |-> outs]
Thrown == [threw |-> TRUE, out |-> <<>>]

\* the narrative of generateSingleScene's fallback pair
FallbackNarrative(languageMode) ==
    IF languageMode = "ar"
    THEN <<"a", ".">>                            \* "تعذر تحليل الصورة."
    ELSE <<"E", ".", NL, NL, "a", ".">>          \* "Could not analyze image.\n\n..."

\* a response text of the drafting call that is the JSON document of an object
\* with the two string fields ("|" stands for the text between the two values)
JsonDoc(narrative, dialogue) == <<"{">> \o narrative \o <<"|">> \o dialogue \o <<"}">>

\* JSON.parse of a response text: the object's two fields, or a SyntaxError
JsonParse(doc) ==
    IF /\ Len(doc) >= 3
       /\ doc[1] = "{"
       /\ doc[Len(doc)] = "}"
       /\ Cardinality(Occurrences(doc, <<"|">>)) = 1
    THEN LET bar == Min(Occurrences(doc, <<"|">>))
         IN  Returned(<<SubSeq(doc, 2, bar - 1), SubSeq(doc, bar + 1, Len(doc) - 1)>>)
    ELSE Thrown

\* generateSingleScene's try block, given how the request ended
DraftTry(resp) ==
    IF resp.kind = "error" THEN Thrown
    ELSE IF resp.kind = "noText" \/ resp.text = <<>> THEN Thrown
    ELSE JsonParse(resp.text)

\* a generateSingleScene whose request is awaited outside the try block
generateSingleSceneUncaught(languageMode, resp) ==
    IF resp.kind = "error" THEN Thrown
    ELSE IF DraftTry(resp).threw
         THEN Returned(<<FallbackNarrative(languageMode), EmptyText>>)
         ELSE DraftTry(resp)

\* generateSingleScene: <<narrative, dialogue>> of the parsed object, or of the
\* fallback pair when the try block threw
generateSingleScene(languageMode, resp) ==
    IF DraftTry(resp).threw
    THEN Returned(<<FallbackNarrative(languageMode), EmptyText>>)
    ELSE DraftTry(resp)

\* a guard that tests for the empty string only
GuardOnEmptyOnly(text) == text = EmptyText

\* refineText before its request: if (!text.trim()) return ""
refineTextGuard(text) == IsBlank(text)

\* handleRefineText before anything else: if (!currentText.trim()) return
handleRefineTextGuard(currentText) == IsBlank(currentText)

\* handleRefineText after refineText: updateScene(sceneId, field, refinedText),
\* unless refineText threw
RefineApply(st, sceneId, field, result) ==
    IF result.threw THEN st ELSE updateScene(st, sceneId, field, result.out[1])

\* a refineText that returns the trimmed input when the response is empty
refineTextSettleTrimming(text, resp) ==
    IF resp.kind = "error" THEN Returned(<<text>>)
    ELSE IF resp.kind = "noText" \/ Trim(resp.text) = <<>> THEN Returned(<<Trim(text)>>)
    ELSE Returned(<<Trim(resp.text)>>)

\* refineText once its request has ended: response.text?.trim() || text, and
\* text when the request failed
refineTextSettle(text, resp) ==
    IF resp.kind = "error" THEN Returned(<<text>>)
    ELSE IF resp.kind = "noText" \/ Trim(resp.text) = <<>> THEN Returned(<<text>>)
    ELSE Returned(<<Trim(resp.text)>>)

\* translateText before its request: if (!text.trim()) return ""
translateTextGuard(text) == IsBlank(text)

\* a translateText that hands the input back when the request fails
translateTextSettleEchoing(text, resp) ==
    IF resp.kind = "error" THEN Returned(<<text>>)
    ELSE IF resp.kind = "noText" \/ Trim(resp.text) = <<>> THEN Returned(<<EmptyText>>)
    ELSE Returned(<<Trim(resp.text)>>)

\* translateText once its request has ended: response.text?.trim() || "", and
\* "" when the request failed
translateTextSettle(text, resp) ==
    IF resp.kind = "error" THEN Returned(<<EmptyText>>)
    ELSE IF resp.kind = "noText" \/ Trim(resp.text) = <<>> THEN Returned(<<EmptyText>>)
    ELSE Returned(<<Trim(resp.text)>>)

NoResponse == [kind |-> "none", text |-> EmptyText]

\* no call is being made
GwIdle ==
    [fn |-> "none", languageMode |-> "ar", text |-> EmptyText, sceneId |-> 0,
     field |-> "narrative", phase |-> "idle", requests |-> 0, resp |-> NoResponse,
     threw |-> FALSE, out |-> <<>>, before |-> InitialStory]

GatewayIdle == gw = GwIdle

\* StoryEditor as first mounted, nothing awaited (activeMediaTarget,
\* recordingSceneId: <<>> for null; mediaRecorderRef: 0 for null, else the
\* number of a recorder), in a browser whose canvas draws every image
\* (canvases: what becomes of an image on its way to the canvas, here)
EdInitial ==
    [canvases |-> {"drawn"},
     activeMediaTarget |-> <<>>,
     picker |-> "closed",
     uploads |-> <<>>,
     sceneFiles |-> <<>>,
     isAnalyzing |-> FALSE,
     drafts |-> <<>>,
     refinements |-> <<>>,
     recordingSceneId |-> <<>>,
     micRequests |-> <<>>,
     recorders |-> <<>>,
     mediaRecorderRef |-> 0,
     notices |-> 0]

\* StoryEditor unmounts: the useState and useRef values of the instance are
\* gone, and what its handlers still await settles with setters of an
\* instance that is no longer there (live |-> FALSE). The file picker closes
\* with the input element.
\* the awaiting handlers once the k-th has settled
Without(pending, k) == SubSeq(pending, 1, k - 1) \o SubSeq(pending, k + 1, Len(pending))

Orphaned(pending) == [k \in 1..Len(pending) |-> [pending[k] EXCEPT !.live = FALSE]]

EdUnmount(e) ==
    [e EXCEPT !.activeMediaTarget = <<>>,
              !.picker = "closed",
              !.isAnalyzing = FALSE,
              !.recordingSceneId = <<>>,
              !.mediaRecorderRef = 0,
              !.uploads = Orphaned(@),
              !.sceneFiles = Orphaned(@),
              !.drafts = Orphaned(@),
              !.refinements = Orphaned(@),
              !.micRequests = Orphaned(@),
              !.recorders = Orphaned(@)]

EditorIdle == refiningState = <<>> /\ ed = EdInitial

\* cleanText
cleanText(text) ==
    IF text = EmptyText THEN EmptyText ELSE Trim(RemoveBold(RemoveComments(text)))

\* parseText: ar is parts[0]?.trim() || '', en is parts[1]?.trim() || null
\* (en: <<>> for null, <<text>> otherwise)
parseText(text) ==
    LET parts == Split(cleanText(text), EnMarker)
    IN  [ar |-> Trim(parts[1]),
         en |-> IF Len(parts) >= 2 /\ Trim(parts[2]) # EmptyText
                THEN <<Trim(parts[2])>>
                ELSE <<>>]

\* `${text}\n\n[EN] ${trans}`
Appended(text, trans) == text \o <<NL, NL>> \o EnMarker \o <<SP>> \o trans

\* the test of prepareContent without its look for the marker
NeedsTranslationWhenNotBlank(text) == ~IsBlank(text)

\* prepareContent: text.trim() && !text.includes('[EN]')
NeedsTranslation(text) == ~IsBlank(text) /\ ~Includes(text, EnMarker)

\* one scene's task of prepareContent: where it is (awaiting the translation
\* of its narrative, of its dialogue, or done), newNarrative and newDialogue,
\* and per field the translateText calls made and what they resolved to
TaskOf(scene) ==
    [pc |-> "narrative",
     narrative |-> scene.narrative,
     dialogue |-> scene.dialogue,
     calls |-> [narrative |-> 0, dialogue |-> 0],
     trans |-> [narrative |-> <<>>, dialogue |-> <<>>]]

\* a task that appends whatever translateText resolved to
TaskTranslatedAlways(scene, task, f, result) ==
    IF result.threw THEN [task EXCEPT !.pc = "threw"]
    ELSE [task EXCEPT ![f] = Appended(scene[f], result.out[1]),
                      !.trans[f] = result.out]

\* `if (trans) newX = ...` with what translateText resolved to
TaskTranslated(scene, task, f, result) ==
    IF result.threw THEN [task EXCEPT !.pc = "threw"]
    ELSE [task EXCEPT ![f] = IF result.out[1] # EmptyText
                             THEN Appended(scene[f], result.out[1])
                             ELSE @,
                      !.trans[f] = result.out]

\* the task from its second `if` on, up to its await or its return
TaskAtDialogue(scene, task) ==
    IF task.pc = "threw" THEN task
    ELSE IF NeedsTranslation(scene.dialogue)
    THEN IF translateTextGuard(scene.dialogue)
         THEN [TaskTranslated(scene, [task EXCEPT !.calls.dialogue = 1], "dialogue",
                              Returned(<<EmptyText>>))
                  EXCEPT !.pc = "done"]
         ELSE [task EXCEPT !.pc = "dialogue", !.calls.dialogue = 1]
    ELSE [task EXCEPT !.pc = "done"]

\* the task from its start, up to its first await or its return
TaskAtNarrative(scene) ==
    IF NeedsTranslation(scene.narrative)
    THEN IF translateTextGuard(scene.narrative)
         THEN TaskAtDialogue(scene,
                 TaskTranslated(scene, [TaskOf(scene) EXCEPT !.calls.narrative = 1],
                                "narrative", Returned(<<EmptyText>>)))
         ELSE [TaskOf(scene) EXCEPT !.calls.narrative = 1]
    ELSE TaskAtDialogue(scene, TaskOf(scene))

\* the awaited translateText of the task settles
TaskSettle(scene, task, resp) ==
    LET result == translateTextSettle(scene[task.pc], resp)
        next == TaskTranslated(scene, task, task.pc, result)
    IN  IF next.pc = "threw" THEN next
        ELSE IF task.pc = "narrative" THEN TaskAtDialogue(scene, next)
        ELSE [next EXCEPT !.pc = "done"]

\* PreviewAndPDF is not mounted
PvUnmounted ==
    [displayScenes |-> <<>>, isTranslating |-> FALSE, running |-> FALSE,
     source |-> <<>>, tasks |-> <<>>, earlier |-> <<>>,
     isGenerating |-> FALSE, loadingType |-> "null", exported |-> "nothing",
     jobs |-> <<>>, alerts |-> 0]

\* what outlives a PreviewAndPDF instance: the exports it started, now with
\* setters of an instance that is gone, and what the user was shown
PvCarried(p, fresh) ==
    [fresh EXCEPT !.jobs = Orphaned(p.jobs), !.alerts = p.alerts, !.exported = p.exported]

\* a preparation that hands its processed scenes to the store
PreparationStoreWritingBack(st, p) ==
    IF ~p.running /\ Len(p.displayScenes) = Len(st.scenes)
    THEN setScenes(st, p.displayScenes)
    ELSE st

\* the store after a step of the preparation: prepareContent calls
\* setDisplayScenes and setIsTranslating, and no action of the store
PreparationStore(st, p) == st

\* what follows `await Promise.all(...)`: setDisplayScenes(processedScenes), or
\* the catch block, then finally
PrepareSettle(p) ==
    IF ~p.running THEN p
    ELSE IF \E k \in 1..Len(p.tasks) : p.tasks[k].pc = "threw"
    THEN [p EXCEPT !.displayScenes = p.source, !.isTranslating = FALSE,
                   !.running = FALSE]
    ELSE IF \A k \in 1..Len(p.tasks) : p.tasks[k].pc = "done"
    THEN [p EXCEPT !.displayScenes =
                      [k \in 1..Len(p.tasks) |->
                          [p.source[k] EXCEPT !.narrative = p.tasks[k].narrative,
                                              !.dialogue = p.tasks[k].dialogue]],
                   !.isTranslating = FALSE,
                   !.running = FALSE]
    ELSE p

\* prepareContent that translates in both language modes
prepareContentAlways(st) ==
    PrepareSettle([PvUnmounted EXCEPT
                      !.isTranslating = TRUE,
                      !.running = TRUE,
                      !.source = st.scenes,
                      !.tasks = [k \in 1..Len(st.scenes) |-> TaskAtNarrative(st.scenes[k])]])

\* prepareContent, run by the effect after the mount, up to its awaits
prepareContent(st) ==
    IF st.languageMode = "bilingual"
    THEN [PvUnmounted EXCEPT !.displayScenes = st.scenes]
    ELSE PrepareSettle([PvUnmounted EXCEPT
                           !.isTranslating = TRUE,
                           !.running = TRUE,
                           !.source = st.scenes,
                           !.tasks = [k \in 1..Len(st.scenes) |->
                                         TaskAtNarrative(st.scenes[k])]])

\* the effect of PreviewAndPDF runs again when story.scenes is a new array:
\* a second prepareContent starts, and nothing stops the one before it, which
\* goes on (earlier) and calls the same setters when it settles
EffectRerun(p, st) ==
    LET fresh == prepareContent(st)
    IN  IF st.languageMode = "bilingual"
        THEN [p EXCEPT !.displayScenes = fresh.displayScenes]
        ELSE [p EXCEPT
                 !.earlier = IF p.running
                             THEN Append(@, [source |-> p.source, tasks |-> p.tasks])
                             ELSE @,
                 !.running = fresh.running,
                 !.source = fresh.source,
                 !.tasks = fresh.tasks,
                 !.isTranslating = fresh.isTranslating,
                 !.displayScenes = IF fresh.running THEN @ ELSE fresh.displayScenes]

\* the preview after an action of the store replaced story.scenes: the effect
\* runs again if PreviewAndPDF is mounted
PreviewAfter(p, st) == IF step = "PREVIEW" THEN EffectRerun(p, st) ELSE p

\* App as first rendered: not loading, no file dialog open, nothing awaited
\* (resizes: the Promise.all of handleAIUpload; generations: the
\* generateStoryFromImages calls of handleAIGeneration)
AppInitial ==
    [isLoading |-> FALSE, picker |-> "closed", resizes |-> <<>>,
     generations |-> <<>>, notices |-> 0]

\* the app shows step s and no preview, and awaits nothing
AppAt(s) == step = s /\ pv = PvUnmounted /\ app = AppInitial

\* the objects of the store at creation: the initial Story and its empty array
MemInitial ==
    [stories |-> <<[InitialStory EXCEPT !.scenes = 1]>>,
     arrays |-> <<EmptyText>>,
     scenes |-> <<>>,
     storyRef |-> 1,
     snap |-> <<>>,
     mutations |-> 0]

MemIdle == mem = MemInitial

\* no batch generation is being made
BatchIdle ==
    batch = [phase |-> "idle", languageMode |-> "ar", images |-> <<>>,
             tasks |-> <<>>, threw |-> FALSE, out |-> <<>>]

(***************************************************************************)
(* The scene list driven by the app: manual entry, the editor's buttons    *)
(* and uploads, and a batch generation result                              *)
(***************************************************************************)
SampleTexts == {EmptyText, <<"a">>}
MediaTypes == {"image", "video"}

\* the scene handleNewSceneUpload builds before it calls addScene
NewScene(gid, mediaUrl, mediaType) ==
    [id |-> gid,
     media |-> <<[url |-> mediaUrl, type |-> mediaType]>>,
     narrative |-> EmptyText,
     dialogue |-> EmptyText,
     isAiGenerated |-> FALSE,
     audioUrl |-> Undefined]

\* an uploaded image after resizeImage: its base64 data and mime type
Images == {[data |-> d, mimeType |-> "image/jpeg"] : d \in {"A", "B"}}

\* `data:${image.mimeType};base64,${image.data}`
DataUrl(image) == <<"data:", image.mimeType, ";base64,", image.data>>

\* the scene generateStoryFromImages builds for one image and its drafted text
BatchScene(gid, image, result) ==
    [id |-> gid,
     media |-> <<[url |-> DataUrl(image), type |-> "image"]>>,
     narrative |-> result.narrative,
     dialogue |-> result.dialogue,
     isAiGenerated |-> TRUE,
     audioUrl |-> Undefined]

Op(name, a, b) == [op |-> name, a |-> a, b |-> b]

\* set(...): install the new Story and note the mutation
Install(newStory, op) ==
    /\ story' = newStory
    /\ lastOp' = op

StoreInit ==
    /\ story = InitialStory
    /\ issued = {}
    /\ lastOp = Op("init", 0, 0)
    /\ GatewayIdle
    /\ EditorIdle
    /\ BatchIdle
    /\ MemIdle
    /\ AppAt("INPUT")

\* handleManualEntry and the editor's Add Empty Scene: addScene()
AddEmptyScene ==
    /\ Len(story.scenes) < MaxScenes
    /\ \E gid \in generateId(issued) :
          /\ Install(addScene(story, <<>>, gid), Op("addScene", gid, 0))
          /\ issued' = issued \cup {gid}
    /\ UNCHANGED outsideStore

\* handleNewSceneUpload: addScene(newScene)
AddUploadedScene ==
    /\ Len(story.scenes) < MaxScenes
    /\ \E gid \in generateId(issued), ty \in MediaTypes :
          /\ Install(addScene(story, <<NewScene(gid, "upload", ty)>>, gid),
                     Op("addScene", gid, 1))
          /\ issued' = issued \cup {gid}
    /\ UNCHANGED outsideStore

\* the Delete button of a scene
RemoveScene ==
    \E k \in 1..Len(story.scenes) :
        /\ Install(removeScene(story, story.scenes[k].id),
                   Op("removeScene", story.scenes[k].id, 0))
        /\ UNCHANGED <<issued, outsideStore>>

\* a textarea edit, or a drafting or refinement result applied by id (the
\* scene may have been removed since the call was made)
UpdateSceneText ==
    \E sid \in issued, v \in SampleTexts :
        /\ Install(updateScene(story, sid, "narrative", v), Op("updateScene", sid, 0))
        /\ UNCHANGED <<issued, outsideStore>>

\* the arrow buttons call reorderScenes(index, index - 1) and (index, index + 1);
\* the store takes any pair of positions of the list
ReorderScenes ==
    \E i \in 0..(Len(story.scenes) - 1), j \in 0..(Len(story.scenes) - 1) :
        /\ Install(reorderScenes(story, i, j), Op("reorderScenes", i, j))
        /\ UNCHANGED <<issued, outsideStore>>

\* the ways to draw n ids one after the other
RECURSIVE FreshIdSeqs(_, _)
FreshIdSeqs(used, n) ==
    IF n = 0 THEN {<<>>}
    ELSE UNION {{<<gid>> \o rest : rest \in FreshIdSeqs(used \cup {gid}, n - 1)} :
                   gid \in generateId(used)}

\* handleAIGeneration: setScenes(generatedScenes)
SetScenes ==
    \E n \in 1..MaxScenes :
        \E gids \in FreshIdSeqs(issued, n) :
            /\ Install(setScenes(story,
                         [k \in 1..n |->
                            BatchScene(gids[k], CHOOSE image \in Images : image.data = "A",
                                       [narrative |-> <<"a">>, dialogue |-> EmptyText])]),
                       Op("setScenes", n, 0))
            /\ issued' = issued \cup {gids[k] : k \in 1..n}
            /\ UNCHANGED outsideStore

StoreNext ==
    \/ AddEmptyScene
    \/ AddUploadedScene
    \/ RemoveScene
    \/ UpdateSceneText
    \/ ReorderScenes
    \/ SetScenes

Spec == StoreInit /\ [][StoreNext]_vars

\* C1: after any sequence of addScene (with or without a supplied scene),
\* removeScene, reorderScenes and setScenes issued by the app, no two scenes
\* of story.scenes have the same id.
C1_SceneIdsUnique ==
    \A k1 \in 1..Len(story.scenes), k2 \in 1..Len(story.scenes) :
        k1 # k2 => story.scenes[k1].id # story.scenes[k2].id

\* a full story, after scenes were removed or replaced, just reordered
C1_Witness ==
    /\ Len(story.scenes) = MaxScenes
    /\ Cardinality(issued) > MaxScenes
    /\ lastOp.op = "reorderScenes"
    /\ lastOp.a # lastOp.b

(***************************************************************************)
(* reorderScenes on every list of distinct scenes, for every pair of       *)
(* positions of the list                                                   *)
(***************************************************************************)
\* the lists of n distinct ids
RECURSIVE DistinctIdSeqs(_, _)
DistinctIdSeqs(pool, n) ==
    IF n = 0 THEN {<<>>}
    ELSE UNION {{<<gid>> \o rest : rest \in DistinctIdSeqs(pool \ {gid}, n - 1)} :
                   gid \in pool}

ReorderInit ==
    /\ \E n \in 0..MaxReorderLen :
          \E gids \in DistinctIdSeqs(1..MaxReorderLen, n) :
              story = setScenes(EnteredStory, [k \in 1..n |-> DefaultScene(gids[k])])
    /\ issued = SceneIds(story.scenes)
    /\ lastOp = Op("init", 0, 0)
    /\ GatewayIdle
    /\ EditorIdle
    /\ BatchIdle
    /\ MemIdle
    /\ AppAt("EDITOR")

SpecReorder == ReorderInit /\ [][ReorderScenes]_vars

RemoveAt(seq, k) == SubSeq(seq, 1, k - 1) \o SubSeq(seq, k + 1, Len(seq))
Count(seq, x) == Cardinality({k \in 1..Len(seq) : seq[k] = x})

\* what reorderScenes(i, j) must make of the list old
ReorderPost(old, new, i, j) ==
    /\ Len(new) = Len(old)
    /\ \A k \in 1..Len(old) : Count(new, old[k]) = Count(old, old[k])
    /\ new[j + 1] = old[i + 1]
    /\ RemoveAt(new, j + 1) = RemoveAt(old, i + 1)

\* C2: reorderScenes(i, j) on a list of length n, 0 <= i, j < n, yields the
\* same multiset of scenes (same length, every scene unchanged) with the scene
\* formerly at index i at index j and the others in their relative order.
C2_ReorderMovesOneScene ==
    [][lastOp'.op = "reorderScenes"
         => ReorderPost(story.scenes, story'.scenes, lastOp'.a, lastOp'.b)]_vars

\* a scene was moved across two others, from the first place to the third
C2_Witness ==
    /\ lastOp.op = "reorderScenes"
    /\ lastOp.a = 0
    /\ lastOp.b = 2
    /\ Len(story.scenes) = MaxReorderLen

(***************************************************************************)
(* The gateway's functions called one at a time, with every text and every *)
(* outcome of the request                                                  *)
(***************************************************************************)
TextSegments == {<<"a">>, <<SP>>, <<NL>>, <<"E">>, EnMarker}

\* the texts made of at most n segments
RECURSIVE TextsOf(_)
TextsOf(n) ==
    IF n = 0 THEN {EmptyText}
    ELSE TextsOf(n - 1) \cup {t \o sg : t \in TextsOf(n - 1), sg \in TextSegments}

GatewayTexts == TextsOf(MaxSegs)

\* the texts the service answers a refinement or translation request with
ResponseTexts == {EmptyText, <<SP>>, <<"E">>, <<SP, "E", NL>>, <<"a", NL, NL, "E">>}
AiResponses == {AiError, AiNoText} \cup {AiText(t) : t \in ResponseTexts}

\* the outcomes of the drafting request
DraftResponses ==
    {AiError, AiNoText, AiText(EmptyText), AiText(<<"E">>), AiText(<<"{", "a">>),
     AiText(JsonDoc(<<"a">>, <<"a", "a">>)), AiText(JsonDoc(<<"a", NL, "E">>, EmptyText)),
     AiText(JsonDoc(FallbackNarrative("ar"), <<"a">>))}

\* the texts handleRefineText is called with
HandlerTexts == {EmptyText, <<SP>>, <<NL, SP>>, <<"a">>, <<SP, "a">>}
TextFields == {"narrative", "dialogue"}

\* a call up to its first await (pending, one request made) or to its early
\* return (settled, no request made)
GwCall(fn, languageMode, text, done, outs) ==
    [GwIdle EXCEPT !.fn = fn, !.languageMode = languageMode, !.text = text,
                   !.phase = IF done THEN "settled" ELSE "pending",
                   !.requests = IF done THEN 0 ELSE 1,
                   !.out = IF done THEN outs ELSE <<>>]

GwSettled(result, resp) ==
    [gw EXCEPT !.phase = "settled", !.resp = resp,
               !.threw = result.threw, !.out = result.out]

\* generateSingleScene(image, context, index) up to its await
CallGenerateSingleScene ==
    /\ gw.phase = "idle"
    /\ \E m \in LanguageModes :
          gw' = GwCall("generateSingleScene", m, EmptyText, FALSE, <<>>)
    /\ UNCHANGED outsideGateway

SettleGenerateSingleScene ==
    /\ gw.phase = "pending"
    /\ gw.fn = "generateSingleScene"
    /\ \E resp \in DraftResponses :
          gw' = GwSettled(generateSingleScene(gw.languageMode, resp), resp)
    /\ UNCHANGED outsideGateway

\* refineText(text, field, languageMode) up to its await, or to its early return
CallRefineText ==
    /\ gw.phase = "idle"
    /\ \E text \in GatewayTexts, m \in LanguageModes :
          gw' = GwCall("refineText", m, text, refineTextGuard(text), <<EmptyText>>)
    /\ UNCHANGED outsideGateway

SettleRefineText ==
    /\ gw.phase = "pending"
    /\ gw.fn = "refineText"
    /\ \E resp \in AiResponses :
          gw' = GwSettled(refineTextSettle(gw.text, resp), resp)
    /\ UNCHANGED outsideGateway

\* translateText(text) up to its await, or to its early return
CallTranslateText ==
    /\ gw.phase = "idle"
    /\ \E text \in GatewayTexts :
          gw' = GwCall("translateText", "ar", text, translateTextGuard(text), <<EmptyText>>)
    /\ UNCHANGED outsideGateway

SettleTranslateText ==
    /\ gw.phase = "pending"
    /\ gw.fn = "translateText"
    /\ \E resp \in AiResponses :
          gw' = GwSettled(translateTextSettle(gw.text, resp), resp)
    /\ UNCHANGED outsideGateway

\* handleRefineText(sceneId, field, currentText) up to the await of refineText,
\* or to its early return; the scene id may be that of no scene
CallHandleRefineText ==
    /\ gw.phase = "idle"
    /\ \E sid \in Ids, f \in TextFields, text \in HandlerTexts :
          LET call == [GwCall("handleRefineText", story.languageMode, text,
                              handleRefineTextGuard(text), <<>>)
                          EXCEPT !.sceneId = sid, !.field = f, !.before = story]
          IN  IF handleRefineTextGuard(text)
              THEN /\ gw' = call
                   /\ UNCHANGED <<story, issued, lastOp, refiningState, outsideEditor>>
              ELSE IF refineTextGuard(text)
              THEN \* refineText returns "" at once: the update and the reset follow
                   /\ gw' = [call EXCEPT !.phase = "settled", !.requests = 0,
                                         !.out = <<EmptyText>>]
                   /\ Install(updateScene(story, sid, f, EmptyText),
                              Op("updateScene", sid, 0))
                   /\ refiningState' = <<>>
                   /\ UNCHANGED <<issued, outsideEditor>>
              ELSE /\ gw' = call
                   /\ refiningState' = <<[sceneId |-> sid, field |-> f]>>
                   /\ UNCHANGED <<story, issued, lastOp, outsideEditor>>

\* refineText settles: the try block's updateScene, then finally
SettleHandleRefineText ==
    /\ gw.phase = "pending"
    /\ gw.fn = "handleRefineText"
    /\ \E resp \in AiResponses :
          LET result == refineTextSettle(gw.text, resp)
          IN  /\ gw' = [GwSettled(result, resp) EXCEPT !.threw = FALSE]
              /\ IF result.threw
                 THEN UNCHANGED <<story, lastOp>>
                 ELSE Install(RefineApply(story, gw.sceneId, gw.field, result),
                              Op("updateScene", gw.sceneId, 0))
    /\ refiningState' = <<>>
    /\ UNCHANGED <<issued, outsideEditor>>

\* the caller takes the result
GwReturn ==
    /\ gw.phase = "settled"
    /\ gw' = GwIdle
    /\ UNCHANGED outsideGateway

\* one scene to refine; ids 2.. are ids of no scene
GatewayInit ==
    /\ story = addScene(EnteredStory, <<>>, 1)
    /\ issued = {1}
    /\ lastOp = Op("init", 0, 0)
    /\ GatewayIdle
    /\ EditorIdle
    /\ BatchIdle
    /\ MemIdle
    /\ AppAt("EDITOR")

GatewayNext ==
    \/ CallGenerateSingleScene
    \/ SettleGenerateSingleScene
    \/ CallRefineText
    \/ SettleRefineText
    \/ CallTranslateText
    \/ SettleTranslateText
    \/ CallHandleRefineText
    \/ SettleHandleRefineText
    \/ GwReturn

SpecGateway == GatewayInit /\ [][GatewayNext]_vars

\* the drafting request failed, answered without text, or with text that is
\* not the JSON document of a scene
Chars(t) == {t[k] : k \in 1..Len(t)}

IsSceneJson(doc) ==
    \E i \in 2..(Len(doc) - 1) :
        LET n == SubSeq(doc, 2, i - 1)
            d == SubSeq(doc, i + 1, Len(doc) - 1)
        IN  doc = JsonDoc(n, d) /\ "|" \notin (Chars(n) \cup Chars(d))

DraftFailed(resp) ==
    \/ resp.kind \in {"error", "noText"}
    \/ resp.text = EmptyText
    \/ ~IsSceneJson(resp.text)

\* C4: when the AI call inside generateSingleScene fails (request error, empty
\* response text, unparsable JSON), generateSingleScene does not throw and
\* resolves to the fallback pair: the fallback narrative of the language mode
\* and the empty dialogue.
C4_DraftFailureYieldsFallback ==
    (gw.fn = "generateSingleScene" /\ gw.phase = "settled" /\ DraftFailed(gw.resp))
        => /\ ~gw.threw
           /\ gw.out = <<FallbackNarrative(gw.languageMode), EmptyText>>

\* a drafting call in bilingual mode whose request was rejected
C4_Witness ==
    /\ gw.fn = "generateSingleScene"
    /\ gw.phase = "settled"
    /\ gw.languageMode = "bilingual"
    /\ gw.resp.kind = "error"

\* C5: called with an empty or whitespace-only text, refineText returns the
\* empty string and makes no request to the AI service; handleRefineText with
\* an empty or whitespace-only current text makes no gateway call and leaves
\* the store (and refiningState) as they were.
C5_BlankRefineMakesNoRequest ==
    /\ (gw.fn = "refineText" /\ IsBlank(gw.text))
          => /\ gw.phase = "settled"
             /\ gw.requests = 0
             /\ ~gw.threw
             /\ gw.out = <<EmptyText>>
    /\ (gw.fn = "handleRefineText" /\ IsBlank(gw.text))
          => /\ gw.phase = "settled"
             /\ gw.requests = 0
             /\ story = gw.before
             /\ refiningState = <<>>

\* handleRefineText was called with white space only, on a scene whose text an
\* earlier refinement had changed
C5_Witness ==
    /\ gw.fn = "handleRefineText"
    /\ gw.text = <<NL, SP>>
    /\ gw.phase = "settled"
    /\ gw.sceneId = 1
    /\ story.scenes[1].narrative # EmptyText

\* C6: when the request inside refineText fails or its response is empty, for
\* a non-blank input text, refineText does not throw and resolves to exactly
\* the text it was given.
C6_RefineFailureReturnsInput ==
    (/\ gw.fn = "refineText"
     /\ gw.phase = "settled"
     /\ ~IsBlank(gw.text)
     /\ (gw.resp.kind \in {"error", "noText"} \/ IsBlank(gw.resp.text)))
        => /\ ~gw.threw
           /\ gw.out = <<gw.text>>

\* a text with white space around it was given and the response had no text
C6_Witness ==
    /\ gw.fn = "refineText"
    /\ gw.phase = "settled"
    /\ gw.text = <<SP, "a", NL>>
    /\ gw.resp.kind = "noText"

(***************************************************************************)
(* generateStoryFromImages: one task per image, each awaiting its own      *)
(* generateSingleScene; the requests settle in any order                   *)
(***************************************************************************)
BatchResponses ==
    {AiError, AiText(JsonDoc(<<"a">>, <<"E">>))}

\* the task of one image before its request settles
\* (rank: the position of the task among the settled ones, 0 before it settles)
TaskPending == [done |-> FALSE, rank |-> 0, resp |-> NoResponse, scene |-> <<>>]

\* the lists of at most n images
RECURSIVE ImageLists(_)
ImageLists(n) ==
    IF n = 0 THEN {<<>>}
    ELSE ImageLists(n - 1) \cup
         {l \o <<image>> : l \in {x \in ImageLists(n - 1) : Len(x) = n - 1},
                           image \in Images}

\* what Promise.all would resolve to if it took the scenes as they settle
PromiseAllAsSettled(tasks) ==
    [r \in 1..Len(tasks) |->
        tasks[CHOOSE k \in 1..Len(tasks) : tasks[k].rank = r].scene[1]]

\* what Promise.all(scenePromises) resolves to: the scenes in the order of the
\* promises, that of the images
PromiseAll(tasks) == [k \in 1..Len(tasks) |-> tasks[k].scene[1]]

\* Promise.all settles once every task has
BatchSettle(b) ==
    IF \A k \in 1..Len(b.tasks) : b.tasks[k].done
    THEN [b EXCEPT !.phase = "returned", !.out = PromiseAll(b.tasks)]
    ELSE b

\* generateStoryFromImages(title, studentName, languageMode, images) up to
\* the awaits
CallGenerateStoryFromImages ==
    /\ batch.phase = "idle"
    /\ \E images \in ImageLists(MaxImages), m \in LanguageModes :
          batch' = BatchSettle([batch EXCEPT !.phase = "running",
                                             !.languageMode = m,
                                             !.images = images,
                                             !.tasks = [k \in 1..Len(images) |-> TaskPending]])
    /\ UNCHANGED <<issued, outsideBatch>>

\* the request of image k settles: the task builds its scene
SettleBatchTask ==
    /\ batch.phase = "running"
    /\ \E k \in 1..Len(batch.tasks), resp \in BatchResponses, gid \in generateId(issued) :
          LET result == generateSingleScene(batch.languageMode, resp)
              scene == BatchScene(gid, batch.images[k],
                                  [narrative |-> result.out[1], dialogue |-> result.out[2]])
          IN  /\ ~batch.tasks[k].done
              /\ IF result.threw
                 THEN batch' = [batch EXCEPT !.phase = "rejected", !.threw = TRUE]
                 ELSE batch' = BatchSettle(
                        [batch EXCEPT !.tasks[k] =
                            [done |-> TRUE,
                             rank |-> 1 + Cardinality({j \in 1..Len(batch.tasks) :
                                                          batch.tasks[j].done}),
                             resp |-> resp,
                             scene |-> <<scene>>]])
              /\ issued' = issued \cup {gid}
    /\ UNCHANGED outsideBatch

BatchInit ==
    /\ story = EnteredStory
    /\ issued = {}
    /\ lastOp = Op("init", 0, 0)
    /\ GatewayIdle
    /\ EditorIdle
    /\ BatchIdle
    /\ MemIdle
    /\ AppAt("METHOD_SELECT")

BatchNext ==
    \/ CallGenerateStoryFromImages
    \/ SettleBatchTask

SpecBatch == BatchInit /\ [][BatchNext]_vars

\* C3: generateStoryFromImages returns as many scenes as it was given images;
\* the scene at position k was built from the image at position k, whatever
\* the order in which the requests settled: its media is the single image item
\* whose url is that image's data url, its text is what generateSingleScene
\* drafted for that image, and isAiGenerated is true.
C3_BatchKeepsInputOrder ==
    batch.phase = "returned" =>
        /\ ~batch.threw
        /\ Len(batch.out) = Len(batch.images)
        /\ \A k \in 1..Len(batch.images) :
              LET drafted == generateSingleScene(batch.languageMode, batch.tasks[k].resp)
              IN  /\ batch.out[k].media =
                        <<[url |-> DataUrl(batch.images[k]), type |-> "image"]>>
                  /\ batch.out[k].isAiGenerated = TRUE
                  /\ batch.out[k].narrative = drafted.out[1]
                  /\ batch.out[k].dialogue = drafted.out[2]
                  /\ batch.out[k] = batch.tasks[k].scene[1]

\* three different images whose requests settled last to first
C3_Witness ==
    /\ batch.phase = "returned"
    /\ Len(batch.images) = MaxImages
    /\ batch.images[1] # batch.images[2]
    /\ \A k \in 1..MaxImages : batch.tasks[k].rank = MaxImages + 1 - k

(***************************************************************************)
(* The preview: the content preparation of PreviewAndPDF over a story the  *)
(* editor has left, and translateText and parseText tried on their own     *)
(***************************************************************************)
\* a field left empty, of white space, in Arabic, or already translated
PreviewTexts == {EmptyText, <<SP>>, <<"a">>, Appended(<<"a">>, <<"E">>)}

TranslateResponses == {AiError, AiNoText, AiText(<<SP, "E">>)}

RECURSIVE PreviewSceneLists(_)
PreviewSceneLists(n) ==
    IF n = 0 THEN {<<>>}
    ELSE PreviewSceneLists(n - 1) \cup
         {l \o <<[DefaultScene(n) EXCEPT !.narrative = nar, !.dialogue = dia]>> :
             l \in {x \in PreviewSceneLists(n - 1) : Len(x) = n - 1},
             nar \in PreviewTexts, dia \in PreviewTexts}

\* the segments of a text without marker or markup, and the texts parseText
\* is tried on
PlainTexts == {t \in TextsOf(2) : ~Includes(t, EnMarker)}
MarkupTexts ==
    {<<"*", "*", "a", "*", "*">>, <<"*", "*", "*">>,
     CommentOpen \o <<"E">> \o CommentClose \o <<"a">>,
     CommentOpen \o <<NL>> \o CommentClose,
     <<"<", "!", "-", "-", ">", "a">>,
     CommentOpen \o CommentClose \o <<"a">> \o CommentOpen \o <<"E">> \o CommentClose}
ParseTexts ==
    GatewayTexts \cup MarkupTexts \cup {Appended(ar, en) : ar \in PlainTexts, en \in PlainTexts}

\* the editor's Preview button: setStep(PREVIEW); PreviewAndPDF mounts and its
\* effect runs prepareContent
OnPreview ==
    /\ step = "EDITOR"
    /\ step' = "PREVIEW"
    /\ pv' = PvCarried(pv, prepareContent(story))
    /\ story' = PreparationStore(story, pv')
    /\ ed' = EdUnmount(ed)
    /\ refiningState' = <<>>
    /\ UNCHANGED <<issued, lastOp, outsideUi>>

\* a translateText call of the preparation settles
SettleTranslation ==
    /\ step = "PREVIEW"
    /\ pv.running
    /\ \E k \in 1..Len(pv.tasks), resp \in TranslateResponses :
          /\ pv.tasks[k].pc \in TextFields
          /\ pv' = PrepareSettle([pv EXCEPT !.tasks[k] =
                                     TaskSettle(pv.source[k], pv.tasks[k], resp)])
    /\ story' = PreparationStore(story, pv')
    /\ UNCHANGED <<step, issued, lastOp, refiningState, ed, outsideUi>>

\* Back to Editor: setStep(EDITOR); PreviewAndPDF unmounts
OnEdit ==
    /\ step = "PREVIEW"
    /\ step' = "EDITOR"
    /\ pv' = PvCarried(pv, PvUnmounted)
    /\ UNCHANGED outsidePreview

\* the awaits of an export of the display scenes: generatePDF awaits
\* html2canvas once per page (the cover and one page per display scene);
\* generatePPT awaits getVideoThumbnail once per video and then writeFile
RECURSIVE Videos(_)
Videos(scenes) ==
    IF scenes = <<>> THEN 0
    ELSE Cardinality({i \in 1..Len(Head(scenes).media) :
                         Head(scenes).media[i].type = "video"})
         + Videos(Tail(scenes))

ExportAwaits(type, displayScenes) ==
    IF type = "PDF" THEN 1 + Len(displayScenes) ELSE Videos(displayScenes) + 1

\* Export PDF / Export PowerPoint, enabled unless isGenerating or isTranslating:
\* generatePDF and generatePPT up to their first await
GenerateExport ==
    /\ step = "PREVIEW"
    /\ ~(pv.isGenerating \/ pv.isTranslating)
    /\ Len(pv.jobs) < MaxPending
    /\ \E type \in {"PDF", "PPT"} :
          pv' = [pv EXCEPT !.isGenerating = TRUE, !.loadingType = type,
                           !.jobs = Append(@,
                               [type |-> type,
                                awaits |-> ExportAwaits(type, pv.displayScenes),
                                live |-> TRUE])]
    /\ UNCHANGED <<step, outsidePreview>>

\* an export that ends without its finally block
ExportEndedWithoutFinally(p, k, outcome) ==
    [p EXCEPT !.jobs = Without(@, k),
              !.exported = outcome,
              !.alerts = IF outcome = "failed" THEN @ + 1 ELSE @]

\* the export ends: the file is saved, or the catch block alerts; then
\* finally's setIsGenerating(false) and setLoadingType(null), which reach the
\* instance that started the export
ExportEnded(p, k, outcome) ==
    [p EXCEPT !.jobs = Without(@, k),
              !.exported = outcome,
              !.alerts = IF outcome = "failed" THEN @ + 1 ELSE @,
              !.isGenerating = IF p.jobs[k].live THEN FALSE ELSE @,
              !.loadingType = IF p.jobs[k].live THEN "null" ELSE @]

\* something an export awaits settles: the step and the code up to the next
\* await went well, or threw
SettleExport ==
    /\ \E k \in 1..Len(pv.jobs), went \in {"well", "threw"} :
          IF went = "threw"
          THEN /\ pv.alerts < MaxNotices
               /\ pv' = ExportEnded(pv, k, "failed")
          ELSE IF pv.jobs[k].awaits > 1
          THEN pv' = [pv EXCEPT !.jobs[k].awaits = @ - 1]
          ELSE pv' = ExportEnded(pv, k, "saved")
    /\ UNCHANGED <<step, outsidePreview>>

\* parseText(text)
CallParseText ==
    /\ gw.phase = "idle"
    /\ \E text \in ParseTexts :
          gw' = [GwCall("parseText", "ar", text, TRUE, <<>>)
                    EXCEPT !.out = <<parseText(text)>>]
    /\ UNCHANGED outsideGateway

PreviewInit ==
    /\ \E scenes \in PreviewSceneLists(MaxPreviewScenes), m \in LanguageModes :
          story = setStoryMeta(setScenes(EnteredStory, scenes), "languageMode", m)
    /\ issued = SceneIds(story.scenes)
    /\ lastOp = Op("init", 0, 0)
    /\ GatewayIdle
    /\ EditorIdle
    /\ BatchIdle
    /\ MemIdle
    /\ AppAt("EDITOR")

\* the functions are tried on their own while the story has no scene
PreviewNext ==
    \/ OnPreview
    \/ SettleTranslation
    \/ OnEdit
    \/ (story.scenes = <<>> /\ CallTranslateText)
    \/ (story.scenes = <<>> /\ SettleTranslateText)
    \/ (story.scenes = <<>> /\ CallParseText)
    \/ (story.scenes = <<>> /\ GwReturn)

SpecPreview == PreviewInit /\ [][PreviewNext]_vars

\* the export buttons can be used
ExportUsable == step = "PREVIEW" /\ ~(pv.isGenerating \/ pv.isTranslating)

\* C7: translateText given an empty or whitespace-only text returns the
\* empty string without a request to the AI service; it never throws, and
\* returns the empty string when the request fails. In the content preparation
\* a translation that came back empty leaves newNarrative / newDialogue, and
\* then the display scene's field, the text the story holds: nothing appended.
C7_TranslateBlankOrFailureIsEmpty ==
    /\ gw.fn = "translateText" =>
          /\ IsBlank(gw.text) =>
                (gw.phase = "settled" /\ gw.requests = 0 /\ gw.out = <<EmptyText>>)
          /\ gw.phase = "settled" => ~gw.threw
          /\ (gw.phase = "settled" /\ gw.resp.kind = "error") => gw.out = <<EmptyText>>
    /\ step = "PREVIEW" =>
          \A k \in 1..Len(pv.tasks) : \A f \in TextFields :
              pv.tasks[k].trans[f] = <<EmptyText>> =>
                  /\ pv.tasks[k][f] = story.scenes[k][f]
                  /\ ~Includes(story.scenes[k][f], EnMarker)
                  /\ ~Includes(pv.tasks[k][f], EnMarker)
                  /\ ~pv.running => pv.displayScenes[k][f] = story.scenes[k][f]

\* the preparation is over; the translation of the first scene's narrative
\* came back empty and that of its dialogue did not
C7_Witness ==
    /\ step = "PREVIEW"
    /\ ExportUsable
    /\ Len(pv.tasks) = MaxPreviewScenes
    /\ pv.tasks[1].trans.narrative = <<EmptyText>>
    /\ pv.tasks[1].trans.dialogue = <<<<"E">>>>
    /\ pv.displayScenes[1].narrative = <<"a">>
    /\ pv.displayScenes[1].dialogue = Appended(<<"a">>, <<"E">>)

\* the translateText calls the preparation has made for the narrative of
\* scene k
NarrativeCalls(k) == pv.tasks[k].calls.narrative

\* C8 as stated: in 'ar' mode, by the time the export buttons can be used the
\* preparation has made exactly one translateText call for each narrative
\* without the [EN] marker and none for each narrative with it.
C8_OneCallPerUnmarkedNarrative ==
    (ExportUsable /\ story.languageMode = "ar") =>
        /\ Len(pv.tasks) = Len(story.scenes)
        /\ \A k \in 1..Len(story.scenes) :
              NarrativeCalls(k) =
                  IF ~Includes(story.scenes[k].narrative, EnMarker) THEN 1 ELSE 0

\* C8 amended: in 'ar' mode, by the time the export buttons can be used the
\* preparation has made exactly one translateText call for each narrative
\* that is not blank and has no [EN] marker, and none for each narrative that
\* is blank or has the marker; at no time has it made more.
C8_OneCallPerUnmarkedNonBlankNarrative ==
    (step = "PREVIEW" /\ story.languageMode = "ar") =>
        /\ Len(pv.tasks) = Len(story.scenes)
        /\ \A k \in 1..Len(story.scenes) :
              LET due == IF /\ ~IsBlank(story.scenes[k].narrative)
                            /\ ~Includes(story.scenes[k].narrative, EnMarker)
                         THEN 1 ELSE 0
              IN  /\ NarrativeCalls(k) <= due
                  /\ ExportUsable => NarrativeCalls(k) = due

\* the buttons can be used over a story whose first narrative is Arabic and
\* was translated once, and whose second is blank or already translated
C8_Witness ==
    /\ ExportUsable
    /\ story.languageMode = "ar"
    /\ Len(story.scenes) = MaxPreviewScenes
    /\ story.scenes[1].narrative = <<"a">>
    /\ NarrativeCalls(1) = 1
    /\ story.scenes[2].narrative \in {<<SP>>, Appended(<<"a">>, <<"E">>)}
    /\ NarrativeCalls(2) = 0

\* the translateText calls the preparation has made
RECURSIVE SumCalls(_)
SumCalls(tasks) ==
    IF tasks = <<>> THEN 0
    ELSE Head(tasks).calls.narrative + Head(tasks).calls.dialogue + SumCalls(Tail(tasks))

\* C9: in bilingual mode the preparation makes no translateText call and the
\* display scenes are story.scenes; parseText of a field `<ar>\n\n[EN] <en>`,
\* <ar> and <en> being texts without marker or markup and <en> not blank,
\* yields <ar> trimmed and <en> trimmed.
C9_BilingualUntouchedAndParsed ==
    /\ (step = "PREVIEW" /\ story.languageMode = "bilingual") =>
          /\ SumCalls(pv.tasks) = 0
          /\ ~pv.isTranslating
          /\ pv.displayScenes = story.scenes
          /\ \A k \in 1..Len(pv.displayScenes) :
                pv.displayScenes[k].narrative = Appended(<<"a">>, <<"E">>) =>
                    parseText(pv.displayScenes[k].narrative) =
                        [ar |-> <<"a">>, en |-> <<<<"E">>>>]
    /\ (gw.fn = "parseText" /\ gw.phase = "settled") =>
          \A ar \in PlainTexts, en \in PlainTexts :
              (gw.text = Appended(ar, en) /\ ~IsBlank(en)) =>
                  gw.out = <<[ar |-> Trim(ar), en |-> <<Trim(en)>>]>>

\* a bilingual story of two scenes, one narrative translated, one not, is
\* shown in the preview
C9_Witness ==
    /\ step = "PREVIEW"
    /\ story.languageMode = "bilingual"
    /\ Len(story.scenes) = MaxPreviewScenes
    /\ story.scenes[1].narrative = Appended(<<"a">>, <<"E">>)
    /\ story.scenes[2].narrative = <<"a">>
    /\ pv.displayScenes = story.scenes

(***************************************************************************)
(* The store object by object: what each mutation allocates, shares and    *)
(* writes                                                                  *)
(***************************************************************************)
\* a new Story object, installed by set(...)
InstallStory(m, obj) ==
    [m EXCEPT !.stories = Append(@, obj),
              !.storyRef = Len(m.stories) + 1,
              !.mutations = @ + 1]

NewArray(m, items) == [m EXCEPT !.arrays = Append(@, items)]
NewSceneObject(m, scene) == [m EXCEPT !.scenes = Append(@, scene)]
LastArray(m) == Len(m.arrays)
LastSceneObject(m) == Len(m.scenes)

CurrentStory(m) == m.stories[m.storyRef]
CurrentItems(m) == m.arrays[CurrentStory(m).scenes]

\* the Story at an address, read through its references
Deep(m, ref) ==
    [m.stories[ref] EXCEPT !.scenes =
        [k \in 1..Len(m.arrays[m.stories[ref].scenes]) |->
            m.scenes[m.arrays[m.stories[ref].scenes][k]]]]

\* story: { ...state.story, ...meta }
memSetStoryMeta(m, field, value) ==
    InstallStory(m, [CurrentStory(m) EXCEPT ![field] = value])

\* story: { ...state.story, scenes }: the caller's array itself
memSetScenes(m, array) ==
    InstallStory(m, [CurrentStory(m) EXCEPT !.scenes = array])

\* scenes: [...state.story.scenes, newScene]
memAddScene(m, supplied, gid) ==
    LET m1 == IF supplied = <<>> THEN NewSceneObject(m, DefaultScene(gid)) ELSE m
        newScene == IF supplied = <<>> THEN LastSceneObject(m1) ELSE supplied[1]
        m2 == NewArray(m1, Append(CurrentItems(m), newScene))
    IN  InstallStory(m2, [CurrentStory(m) EXCEPT !.scenes = LastArray(m2)])

\* scenes.filter(s => s.id !== sceneId)
memRemoveScene(m, sceneId) ==
    LET m1 == NewArray(m, SelectSeq(CurrentItems(m),
                                    LAMBDA a : m.scenes[a].id # sceneId))
    IN  InstallStory(m1, [CurrentStory(m) EXCEPT !.scenes = LastArray(m1)])

\* scenes.map(s => s.id === sceneId ? { ...s, [field]: value } : s): a new
\* array, a new object for each scene of that id, the other objects shared
RECURSIVE MapScenes(_, _, _, _, _, _)
MapScenes(m, items, done, sceneId, field, value) ==
    IF items = <<>> THEN NewArray(m, done)
    ELSE IF m.scenes[Head(items)].id = sceneId
    THEN LET m1 == NewSceneObject(m, [m.scenes[Head(items)] EXCEPT ![field] = value])
         IN  MapScenes(m1, Tail(items), Append(done, LastSceneObject(m1)),
                       sceneId, field, value)
    ELSE MapScenes(m, Tail(items), Append(done, Head(items)), sceneId, field, value)

memUpdateScene(m, sceneId, field, value) ==
    LET m1 == MapScenes(m, CurrentItems(m), <<>>, sceneId, field, value)
    IN  InstallStory(m1, [CurrentStory(m) EXCEPT !.scenes = LastArray(m1)])

\* the two splices done on state.story.scenes itself
memReorderScenesInPlace(m, startIndex, endIndex) ==
    LET result == CurrentStory(m).scenes
        m2 == [m EXCEPT !.arrays[result] = Reorder(@, startIndex, endIndex)]
    IN  InstallStory(m2, [CurrentStory(m) EXCEPT !.scenes = result])

\* result = Array.from(state.story.scenes); the two splices on result
memReorderScenes(m, startIndex, endIndex) ==
    LET m1 == NewArray(m, CurrentItems(m))
        result == LastArray(m1)
        m2 == [m1 EXCEPT !.arrays[result] = Reorder(@, startIndex, endIndex)]
    IN  InstallStory(m2, [CurrentStory(m) EXCEPT !.scenes = result])

\* scenes.map(s => s.id === sceneId ? { ...s, audioUrl } : s)
memSetAudio(m, sceneId, audioUrl) == memUpdateScene(m, sceneId, "audioUrl", audioUrl)

MayMutate == mem.mutations < MaxMutations

MemSetStoryMeta ==
    /\ MayMutate
    /\ \E m \in LanguageModes :
          /\ mem' = memSetStoryMeta(mem, "languageMode", m)
          /\ Install(setStoryMeta(story, "languageMode", m), Op("setStoryMeta", 0, 0))
    /\ UNCHANGED <<issued, outsideMem>>

\* handleAIGeneration: the array generateStoryFromImages resolved to
MemSetScenes ==
    /\ MayMutate
    /\ \E gid \in generateId(issued), image \in Images :
          LET scene == BatchScene(gid, image,
                                  [narrative |-> <<"a">>, dialogue |-> EmptyText])
              m1 == NewSceneObject(mem, scene)
              m2 == NewArray(m1, <<LastSceneObject(m1)>>)
          IN  /\ mem' = memSetScenes(m2, LastArray(m2))
              /\ Install(setScenes(story, <<scene>>), Op("setScenes", 1, 0))
              /\ issued' = issued \cup {gid}
    /\ UNCHANGED outsideMem

\* addScene(): the default scene; addScene(newScene): the caller's object
MemAddScene ==
    /\ MayMutate
    /\ Len(story.scenes) < MaxScenes
    /\ \E gid \in generateId(issued), own \in BOOLEAN :
          LET scene == IF own THEN NewScene(gid, "blob", "video") ELSE DefaultScene(gid)
              m1 == IF own THEN NewSceneObject(mem, scene) ELSE mem
              supplied == IF own THEN <<LastSceneObject(m1)>> ELSE <<>>
          IN  /\ mem' = memAddScene(m1, supplied, gid)
              /\ Install(addScene(story, IF own THEN <<scene>> ELSE <<>>, gid),
                         Op("addScene", gid, 0))
              /\ issued' = issued \cup {gid}
    /\ UNCHANGED outsideMem

MemRemoveScene ==
    /\ MayMutate
    /\ \E sid \in issued :
          /\ mem' = memRemoveScene(mem, sid)
          /\ Install(removeScene(story, sid), Op("removeScene", sid, 0))
    /\ UNCHANGED <<issued, outsideMem>>

MemUpdateScene ==
    /\ MayMutate
    /\ \E sid \in issued, text \in SampleTexts :
          /\ mem' = memUpdateScene(mem, sid, "narrative", text)
          /\ Install(updateScene(story, sid, "narrative", text), Op("updateScene", sid, 0))
    /\ UNCHANGED <<issued, outsideMem>>

MemReorderScenes ==
    /\ MayMutate
    /\ \E i \in 0..(Len(story.scenes) - 1), j \in 0..(Len(story.scenes) - 1) :
          /\ mem' = memReorderScenes(mem, i, j)
          /\ Install(reorderScenes(story, i, j), Op("reorderScenes", i, j))
    /\ UNCHANGED <<issued, outsideMem>>

MemSetAudio ==
    /\ MayMutate
    /\ \E sid \in issued, audioUrl \in {"blob", Undefined} :
          /\ mem' = memSetAudio(mem, sid, audioUrl)
          /\ Install(setAudio(story, sid, audioUrl), Op("setAudio", sid, 0))
    /\ UNCHANGED <<issued, outsideMem>>

\* a reader obtains the current Story: its address, and what it reads there
ObtainStory ==
    /\ mem.snap = <<>>
    /\ mem' = [mem EXCEPT !.snap = <<[ref |-> mem.storyRef,
                                      value |-> Deep(mem, mem.storyRef)]>>]
    /\ UNCHANGED <<story, issued, lastOp, outsideMem>>

MemInit ==
    /\ story = InitialStory
    /\ issued = {}
    /\ lastOp = Op("init", 0, 0)
    /\ GatewayIdle
    /\ EditorIdle
    /\ BatchIdle
    /\ MemIdle
    /\ AppAt("INPUT")

MemNext ==
    \/ MemSetStoryMeta
    \/ MemSetScenes
    \/ MemAddScene
    \/ MemRemoveScene
    \/ MemUpdateScene
    \/ MemReorderScenes
    \/ MemSetAudio
    \/ ObtainStory

SpecMem == MemInit /\ [][MemNext]_vars

\* the Story read through the current address is the Story the mutations
\* compute
MemAgrees == Deep(mem, mem.storyRef) = story

\* C10: every store mutation installs a Story object that did not exist
\* before, and a Story obtained earlier reads the same ever after: its
\* metadata, its sequence of scenes and the fields of each scene.
C10_SnapshotsNeverChange ==
    /\ [](mem.snap # <<>> => Deep(mem, mem.snap[1].ref) = mem.snap[1].value)
    /\ [][mem'.mutations # mem.mutations =>
            /\ mem'.storyRef \notin 1..Len(mem.stories)
            /\ mem'.storyRef \in 1..Len(mem'.stories)
            /\ \A ref \in 1..Len(mem.stories) : Deep(mem', ref) = Deep(mem, ref)]_vars

\* a Story of two scenes was obtained, and since then the scenes were
\* reordered
C10_Witness ==
    /\ mem.snap # <<>>
    /\ Len(mem.snap[1].value.scenes) = MaxScenes
    /\ mem.mutations = MaxMutations
    /\ lastOp.op = "reorderScenes"
    /\ lastOp.a # lastOp.b
    /\ Len(story.scenes) = MaxScenes
    /\ \A k \in 1..MaxScenes : story.scenes[k] # mem.snap[1].value.scenes[k]


(***************************************************************************)
(* StoryEditor (StoryEditor.tsx): the handlers of the mounted instance,    *)
(* and the settling of what handlers of any instance await                 *)
(***************************************************************************)

\* story.scenes.find(s => s.id === sceneId): <<>> for undefined
FindScene(st, sceneId) ==
    LET found == SelectSeq(st.scenes, LAMBDA s : s.id = sceneId)
    IN  IF found = <<>> THEN <<>> ELSE <<found[1]>>

\* the editor is on screen and no native file dialog is open over it; the
\* isAnalyzing overlay disables no control
EditorUsable == step = "EDITOR" /\ ed.picker = "closed"

\* the Delete button of a scene card: removeScene(scene.id), no confirm
DeleteScene ==
    /\ EditorUsable
    /\ \E k \in 1..Len(story.scenes) :
          Install(removeScene(story, story.scenes[k].id),
                  Op("removeScene", story.scenes[k].id, 0))
    /\ UNCHANGED <<issued, refiningState, step, pv, ed, outsideUi>>

\* the files a user picks (type: what file.type starts with)
UploadFiles == {[name |-> "fileA", type |-> "image"], [name |-> "fileB", type |-> "video"]}

\* what becomes of an image on its way to the canvas: drawn and read back,
\* getContext('2d') returns null, or the image does not load
CanvasOutcomes == {"drawn", "noContext", "loadError"}

\* FileReader.readAsDataURL(file): the file as it is
ReadAsDataURL(file) == <<"data:", file.type, ";base64,", file.name>>

\* canvas.toDataURL(file.type) of the 800x800 canvas the image was drawn on
ToDataURL(file) == <<"data:", file.type, ";base64,", <<file.name, "800x800">>>>

\* a processMediaFile that reads the canvas back whether or not it could draw
processMediaFileFromBlankCanvas(file, canvas) ==
    IF file.type = "video" THEN ReadAsDataURL(file)
    ELSE IF canvas = "loadError" THEN ReadAsDataURL(file)
    ELSE ToDataURL(file)

\* processMediaFile(file): what the promise resolves with (it never rejects)
processMediaFile(file, canvas) ==
    IF file.type = "video" THEN ReadAsDataURL(file)
    ELSE IF canvas = "drawn" THEN ToDataURL(file)
    ELSE ReadAsDataURL(file)

\* newMediaItem / the media of newScene: { url: result, type }
MediaItem(file, canvas) == [url |-> processMediaFile(file, canvas), type |-> file.type]

\* a mutation with an uploaded image is noted with 2 when the canvas gave no
\* context for it
NotedCanvas(file, canvas, b) ==
    IF file.type = "image" /\ canvas = "noContext" THEN 2 ELSE b

\* triggerChangeMedia(sceneId, index): the Change button of a media item
TriggerChangeMedia ==
    /\ EditorUsable
    /\ \E k \in 1..Len(story.scenes) :
          \E index \in 0..(Len(story.scenes[k].media) - 1) :
             ed' = [ed EXCEPT
                       !.activeMediaTarget =
                           <<[sceneId |-> story.scenes[k].id, mediaIndex |-> index]>>,
                       !.picker = "changeMedia"]
    /\ UNCHANGED <<story, issued, lastOp, refiningState, step, pv, outsideUi>>

\* triggerAddSecondMedia(sceneId): "Add Second Image", rendered while
\* scene.media.length < 2
TriggerAddSecondMedia ==
    /\ EditorUsable
    /\ \E k \in 1..Len(story.scenes) :
          /\ Len(story.scenes[k].media) < 2
          /\ ed' = [ed EXCEPT
                       !.activeMediaTarget =
                           <<[sceneId |-> story.scenes[k].id, mediaIndex |-> -1]>>,
                       !.picker = "changeMedia"]
    /\ UNCHANGED <<story, issued, lastOp, refiningState, step, pv, outsideUi>>

\* the file dialog is dismissed: no change event
CancelPicker ==
    /\ step = "EDITOR"
    /\ ed.picker # "closed"
    /\ ed' = [ed EXCEPT !.picker = "closed"]
    /\ UNCHANGED <<story, issued, lastOp, refiningState, step, pv, outsideUi>>

\* handleMediaChange up to its await: with a file and an activeMediaTarget it
\* awaits processMediaFile, holding the story and the target of the render it
\* was created in; without a target it only resets
ChooseMediaFile ==
    /\ step = "EDITOR"
    /\ ed.picker = "changeMedia"
    /\ \E file \in UploadFiles :
          IF ed.activeMediaTarget = <<>>
          THEN ed' = [ed EXCEPT !.picker = "closed"]
          ELSE /\ Len(ed.uploads) < MaxPending
               /\ LET target == ed.activeMediaTarget[1]
                      scene == FindScene(story, target.sceneId)
                  IN  ed' = [ed EXCEPT
                                !.picker = "closed",
                                !.uploads = Append(@,
                                    [sceneId |-> target.sceneId,
                                     mediaIndex |-> target.mediaIndex,
                                     found |-> IF scene = <<>> THEN <<>>
                                               ELSE <<scene[1].media>>,
                                     item |-> file,
                                     live |-> TRUE])]
    /\ UNCHANGED <<story, issued, lastOp, refiningState, step, pv, outsideUi>>

\* newMediaList[index] = item on a copy of the list (an index past the end
\* leaves holes)
ArraySet(list, index, item) ==
    [k \in 1..(IF index + 1 > Len(list) THEN index + 1 ELSE Len(list)) |->
        IF k = index + 1 THEN item
        ELSE IF k <= Len(list) THEN list[k] ELSE Undefined]

\* a handleMediaChange that appends whatever the target's index is
NewMediaListAppending(list, mediaIndex, item) == Append(list, item)

\* the list handleMediaChange hands to updateScene
NewMediaList(list, mediaIndex, item) ==
    IF mediaIndex = -1 THEN Append(list, item) ELSE ArraySet(list, mediaIndex, item)

\* processMediaFile resolves (it never rejects): the rest of handleMediaChange
SettleMediaFile ==
    /\ \E k \in 1..Len(ed.uploads), canvas \in ed.canvases :
          LET u == ed.uploads[k]
          IN  /\ IF u.found = <<>>
                 THEN UNCHANGED <<story, lastOp>>
                 ELSE Install(updateScene(story, u.sceneId, "media",
                                          NewMediaList(u.found[1], u.mediaIndex,
                                                       MediaItem(u.item, canvas))),
                              Op("updateScene", u.sceneId, NotedCanvas(u.item, canvas, 0)))
              /\ pv' = IF u.found = <<>> THEN pv ELSE PreviewAfter(pv, story')
              /\ ed' = [ed EXCEPT
                           !.uploads = Without(@, k),
                           !.activeMediaTarget = IF u.live THEN <<>> ELSE @]
    /\ UNCHANGED <<issued, refiningState, step, outsideUi>>

\* scene.media.filter((_, i) => i !== index)
WithoutIndex(list, index) ==
    SubSeq(list, 1, index) \o SubSeq(list, index + 2, Len(list))

\* removeMediaItem(sceneId, index): the Remove button of a media item,
\* rendered while scene.media.length > 1
RemoveMediaItem ==
    /\ EditorUsable
    /\ \E k \in 1..Len(story.scenes) :
          /\ Len(story.scenes[k].media) > 1
          /\ \E index \in 0..(Len(story.scenes[k].media) - 1) :
                Install(updateScene(story, story.scenes[k].id, "media",
                                    WithoutIndex(story.scenes[k].media, index)),
                        Op("updateScene", story.scenes[k].id, 0))
    /\ UNCHANGED <<issued, refiningState, step, pv, ed, outsideUi>>

\* the words of the control markers, one symbol each
PageHeader == "H"
PageFooter == "F"
PageBreak == "B"

\* how many white space characters t starts with
LeadingSpace(t) == Len(t) - Len(TrimStart(t))

\* the length of the match of /<!--\s*WORD.*?-->/ (anyTail) or of
\* /<!--\s*WORD\s*-->/ at the head of t, 0 when there is none
MarkerMatch(t, word, anyTail) ==
    IF ~StartsWith(t, CommentOpen) THEN 0
    ELSE LET w == 5 + LeadingSpace(SubSeq(t, 5, Len(t)))
         IN  IF w > Len(t) \/ t[w] # word THEN 0
             ELSE IF anyTail
             THEN LET ends == {j \in (w + 1)..(Len(t) - 2) :
                                  /\ SubSeq(t, j, j + 2) = CommentClose
                                  /\ \A i \in (w + 1)..(j - 1) : t[i] # NL}
                  IN  IF ends = {} THEN 0 ELSE Min(ends) + 2
             ELSE LET c == w + 1 + LeadingSpace(SubSeq(t, w + 1, Len(t)))
                  IN  IF c + 2 <= Len(t) /\ SubSeq(t, c, c + 2) = CommentClose
                      THEN c + 2
                      ELSE 0

\* t.replace(rx, '') for one of the CONTROL_MARKERS
RECURSIVE RemoveMarker(_, _, _)
RemoveMarker(t, word, anyTail) ==
    IF t = <<>> THEN <<>>
    ELSE IF MarkerMatch(t, word, anyTail) > 0
    THEN RemoveMarker(SubSeq(t, MarkerMatch(t, word, anyTail) + 1, Len(t)), word, anyTail)
    ELSE <<Head(t)>> \o RemoveMarker(Tail(t), word, anyTail)

\* Array.prototype.join('\n')
RECURSIVE JoinLines(_)
JoinLines(lines) ==
    IF lines = <<>> THEN <<>>
    ELSE IF Len(lines) = 1 THEN lines[1]
    ELSE lines[1] \o <<NL>> \o JoinLines(Tail(lines))

\* a sanitize whose filter drops the empty lines only
sanitizeDroppingEmptyLines(text) ==
    IF text = EmptyText THEN EmptyText
    ELSE LET unmarked ==
                 RemoveMarker(RemoveMarker(RemoveMarker(text, PageHeader, TRUE),
                                           PageFooter, TRUE),
                              PageBreak, FALSE)
             kept == SelectSeq(Split(unmarked, <<NL>>), LAMBDA line : Len(Trim(line)) > 0)
         IN  Trim(JoinLines(kept))

\* sanitize(text)
sanitize(text) ==
    IF text = EmptyText THEN EmptyText
    ELSE LET unmarked ==
                 RemoveMarker(RemoveMarker(RemoveMarker(text, PageHeader, TRUE),
                                           PageFooter, TRUE),
                              PageBreak, FALSE)
             kept == SelectSeq(Split(unmarked, <<NL>>), LAMBDA line : Len(Trim(line)) > 1)
         IN  Trim(JoinLines(kept))

\* "Could not generate text. Please try again or write manually."
CouldNotGenerate == <<"C", ".">>

\* a handleNewSceneUpload that takes the scene back when no text was drafted
DraftApplyRollingBack(st, sceneId, languageMode, result) ==
    IF result.threw \/ result.out[1] = FallbackNarrative(languageMode)
    THEN removeScene(st, sceneId)
    ELSE updateScene(updateScene(updateScene(st, sceneId, "narrative", sanitize(result.out[1])),
                                 sceneId, "dialogue", sanitize(result.out[2])),
                     sceneId, "isAiGenerated", TRUE)

\* handleNewSceneUpload once generateSingleScene has settled: the three
\* updateScene calls of the try block, or the one of the catch block
DraftApply(st, sceneId, languageMode, result) ==
    IF result.threw
    THEN updateScene(st, sceneId, "narrative", CouldNotGenerate)
    ELSE updateScene(updateScene(updateScene(st, sceneId, "narrative", sanitize(result.out[1])),
                                 sceneId, "dialogue", sanitize(result.out[2])),
                     sceneId, "isAiGenerated", TRUE)

\* the outcomes of the drafting request of an uploaded scene
UploadDraftResponses ==
    {AiError,
     AiText(JsonDoc(<<"a", "a", NL, "E">>,
                    CommentOpen \o <<SP, PageBreak>> \o CommentClose \o <<"a", "a">>))}

\* the handlers awaiting a file, a draft or a refinement
TextHandlers == Len(ed.sceneFiles) + Len(ed.drafts) + Len(ed.refinements)

\* "Add Media Scene (Auto-Write)": addSceneInputRef.current?.click()
ClickAddMediaScene ==
    /\ EditorUsable
    /\ ed' = [ed EXCEPT !.picker = "addScene"]
    /\ UNCHANGED <<story, issued, lastOp, refiningState, step, pv, outsideUi>>

\* handleNewSceneFile up to its await of processMediaFile
ChooseSceneFile ==
    /\ step = "EDITOR"
    /\ ed.picker = "addScene"
    /\ TextHandlers < MaxPending
    /\ \E file \in UploadFiles :
          ed' = [ed EXCEPT !.picker = "closed",
                           !.sceneFiles = Append(@,
                               [item |-> file, languageMode |-> story.languageMode,
                                live |-> TRUE])]
    /\ UNCHANGED <<story, issued, lastOp, refiningState, step, pv, outsideUi>>

\* a handleNewSceneUpload that asks for a draft whatever the media type
draftsTextForAnyMedia(mediaType) == TRUE

\* handleNewSceneUpload: `if (mediaType === 'image')` around the drafting
draftsTextFor(mediaType) == mediaType = "image"

\* processMediaFile resolves: handleNewSceneUpload up to its await of
\* generateSingleScene, or to its end for a video (the new id is one never
\* issued; which one makes no difference, and the least is taken)
SettleSceneFile ==
    /\ Len(story.scenes) < MaxScenes
    /\ generateId(issued) # {}
    /\ \E k \in 1..Len(ed.sceneFiles), canvas \in ed.canvases :
          LET f == ed.sceneFiles[k]
              gid == Min(generateId(issued))
          IN  /\ Install(addScene(story,
                                  <<NewScene(gid, processMediaFile(f.item, canvas),
                                             f.item.type)>>,
                                  gid),
                         Op("addScene", gid, NotedCanvas(f.item, canvas, 1)))
              /\ issued' = issued \cup {gid}
              /\ IF draftsTextFor(f.item.type)
                 THEN ed' = [ed EXCEPT
                                !.sceneFiles = Without(@, k),
                                !.isAnalyzing = IF f.live THEN TRUE ELSE @,
                                !.drafts = Append(@,
                                    [sceneId |-> gid, languageMode |-> f.languageMode,
                                     live |-> f.live])]
                 ELSE ed' = [ed EXCEPT
                                !.sceneFiles = Without(@, k),
                                !.isAnalyzing = IF f.live THEN FALSE ELSE @]
    /\ pv' = PreviewAfter(pv, story')
    /\ UNCHANGED <<refiningState, step, outsideUi>>

\* generateSingleScene settles: the rest of handleNewSceneUpload (the
\* mutation is noted with 1 when the drafting had failed)
SettleDraft ==
    /\ \E k \in 1..Len(ed.drafts), resp \in UploadDraftResponses :
          LET d == ed.drafts[k]
          IN  /\ Install(DraftApply(story, d.sceneId, d.languageMode,
                                    generateSingleScene(d.languageMode, resp)),
                         Op("updateScene", d.sceneId,
                            IF DraftTry(resp).threw THEN 1 ELSE 0))
              /\ ed' = [ed EXCEPT
                           !.drafts = Without(@, k),
                           !.isAnalyzing = IF d.live THEN FALSE ELSE @]
    /\ pv' = PreviewAfter(pv, story')
    /\ UNCHANGED <<issued, refiningState, step, outsideUi>>

\* the answers of the service the editor's refinements are settled with
RefineResponses == {AiError, AiText(<<"E">>)}

\* a refine button, disabled while the field is blank or refiningState is
\* set: handleRefineText(scene.id, field, scene[field]) up to its await
ClickRefine ==
    /\ EditorUsable
    /\ refiningState = <<>>
    /\ TextHandlers < MaxPending
    /\ \E k \in 1..Len(story.scenes), field \in TextFields :
          LET scene == story.scenes[k]
          IN  /\ ~IsBlank(scene[field])
              /\ ~handleRefineTextGuard(scene[field])
              /\ refiningState' = <<[sceneId |-> scene.id, field |-> field]>>
              /\ ed' = [ed EXCEPT !.refinements = Append(@,
                           [sceneId |-> scene.id, field |-> field,
                            text |-> scene[field],
                            languageMode |-> story.languageMode,
                            live |-> TRUE])]
    /\ UNCHANGED <<story, issued, lastOp, step, pv, outsideUi>>

\* refineText settles: the try block's updateScene, then finally's
\* setRefiningState(null), which reaches the instance that called
SettleRefine ==
    /\ \E k \in 1..Len(ed.refinements), resp \in RefineResponses :
          LET r == ed.refinements[k]
              result == refineTextSettle(r.text, resp)
          IN  /\ IF result.threw
                 THEN UNCHANGED <<story, lastOp>>
                 ELSE Install(RefineApply(story, r.sceneId, r.field, result),
                              Op("updateScene", r.sceneId, 0))
              /\ pv' = IF result.threw THEN pv ELSE PreviewAfter(pv, story')
              /\ refiningState' = IF r.live THEN <<>> ELSE refiningState
              /\ ed' = [ed EXCEPT !.refinements = Without(@, k)]
    /\ UNCHANGED <<issued, step, outsideUi>>

\* the Record button, rendered while recordingSceneId is null and the scene
\* has no audioUrl: startRecording(scene.id) up to its await
ClickRecord ==
    /\ EditorUsable
    /\ ed.recordingSceneId = <<>>
    /\ Len(ed.micRequests) < MaxPending
    /\ Len(ed.micRequests) + Len(ed.recorders) < MaxRecorders
    /\ \E k \in 1..Len(story.scenes) :
          /\ story.scenes[k].audioUrl \in {Undefined, ""}
          /\ ed' = [ed EXCEPT !.micRequests = Append(@,
                       [sceneId |-> story.scenes[k].id, live |-> TRUE])]
    /\ UNCHANGED <<story, issued, lastOp, refiningState, step, pv, outsideUi>>

\* getUserMedia resolves: new MediaRecorder(stream), mediaRecorderRef.current
\* = mediaRecorder, mediaRecorder.start(), setRecordingSceneId(sceneId)
MicGranted ==
    /\ \E k \in 1..Len(ed.micRequests) :
          LET q == ed.micRequests[k]
          IN  ed' = [ed EXCEPT
                        !.micRequests = Without(@, k),
                        !.recorders = Append(@,
                            [sceneId |-> q.sceneId, state |-> "recording",
                             live |-> q.live]),
                        !.mediaRecorderRef = IF q.live THEN Len(ed.recorders) + 1 ELSE @,
                        !.recordingSceneId = IF q.live THEN <<q.sceneId>> ELSE @]
    /\ UNCHANGED <<story, issued, lastOp, refiningState, step, pv, outsideUi>>

\* getUserMedia rejects: alert("Could not access microphone.")
MicDenied ==
    /\ ed.notices < MaxNotices
    /\ \E k \in 1..Len(ed.micRequests) :
          ed' = [ed EXCEPT !.micRequests = Without(@, k), !.notices = @ + 1]
    /\ UNCHANGED <<story, issued, lastOp, refiningState, step, pv, outsideUi>>

\* the Stop button, rendered on the scene whose id is recordingSceneId:
\* stopRecording() stops the recorder the ref holds if it is recording
ClickStop ==
    /\ EditorUsable
    /\ ed.recordingSceneId # <<>>
    /\ FindScene(story, ed.recordingSceneId[1]) # <<>>
    /\ IF ed.mediaRecorderRef # 0 /\ ed.recorders[ed.mediaRecorderRef].state = "recording"
       THEN ed' = [ed EXCEPT !.recorders[ed.mediaRecorderRef].state = "stopping"]
       ELSE UNCHANGED ed
    /\ UNCHANGED <<story, issued, lastOp, refiningState, step, pv, outsideUi>>

\* the stop event of a stopped recorder: setAudio(sceneId, audioUrl),
\* setRecordingSceneId(null), the tracks are stopped
RecorderOnStop ==
    /\ \E k \in 1..Len(ed.recorders) :
          LET rec == ed.recorders[k]
          IN  /\ rec.state = "stopping"
              /\ Install(setAudio(story, rec.sceneId, "blob"), Op("setAudio", rec.sceneId, 0))
              /\ ed' = [ed EXCEPT
                           !.recorders[k].state = "inactive",
                           !.recordingSceneId = IF rec.live THEN <<>> ELSE @]
    /\ pv' = PreviewAfter(pv, story')
    /\ UNCHANGED <<issued, refiningState, step, outsideUi>>

\* the recorders that are recording
Recording == {k \in 1..Len(ed.recorders) : ed.recorders[k].state = "recording"}

(***************************************************************************)
(* Deleting a scene that the editor is busy with                           *)
(***************************************************************************)
\* a story of two scenes, the first with a narrative to refine
DeleteInit ==
    /\ story = updateScene(addScene(addScene(EnteredStory, <<>>, 1), <<>>, 2),
                           1, "narrative", <<"a">>)
    /\ issued = {1, 2}
    /\ lastOp = Op("init", 0, 0)
    /\ GatewayIdle
    /\ EditorIdle
    /\ BatchIdle
    /\ MemIdle
    /\ AppAt("EDITOR")

DeleteNext ==
    \/ DeleteScene
    \/ TriggerChangeMedia
    \/ CancelPicker
    \/ ClickRefine
    \/ SettleRefine
    \/ ClickRecord
    \/ MicGranted
    \/ ClickStop
    \/ RecorderOnStop

SpecDelete == DeleteInit /\ [][DeleteNext]_vars

\* the application state beside the story that names the scene id
RefersTo(e, refining, preview, sceneId) ==
    \/ e.activeMediaTarget # <<>> /\ e.activeMediaTarget[1].sceneId = sceneId
    \/ refining # <<>> /\ refining[1].sceneId = sceneId
    \/ e.recordingSceneId = <<sceneId>>
    \/ sceneId \in SceneIds(preview.displayScenes)

\* C11: after removeScene(id) no scene with that id remains in story.scenes,
\* the other scenes are unchanged and keep their relative order, and neither
\* the active media target, nor the refining state, nor the recording scene
\* id, nor the preview's display scenes still refers to the removed id.
C11_RemovalLeavesNoReference ==
    [][(lastOp'.op = "removeScene" /\ story' # story) =>
          /\ lastOp'.a \notin SceneIds(story'.scenes)
          /\ story'.scenes = SelectSeq(story.scenes, LAMBDA s : s.id # lastOp'.a)
          /\ ~RefersTo(ed', refiningState', pv', lastOp'.a)]_vars

\* C11, the store's part: the scene with the id is gone and the others are
\* as they were, in their order
C11_RemovalKeepsOtherScenes ==
    [][(lastOp'.op = "removeScene" /\ story' # story) =>
          /\ lastOp'.a \notin SceneIds(story'.scenes)
          /\ story'.scenes = SelectSeq(story.scenes, LAMBDA s : s.id # lastOp'.a)]_vars

\* a scene was deleted while it was being recorded: recordingSceneId names
\* a scene that is gone
C11_RecordingSceneGone ==
    /\ lastOp.op = "removeScene"
    /\ ed.recordingSceneId = <<lastOp.a>>
    /\ lastOp.a \notin SceneIds(story.scenes)

(***************************************************************************)
(* The media of a scene under the editor's media actions                   *)
(***************************************************************************)
\* one scene, with one media item or with two
MediaInit ==
    /\ \E media \in {<<[url |-> PlaceholderUrl, type |-> "image"]>>,
                     <<[url |-> PlaceholderUrl, type |-> "image"],
                       MediaItem([name |-> "fileB", type |-> "video"], "drawn")>>} :
          story = updateScene(addScene(EnteredStory, <<>>, 1), 1, "media", media)
    /\ issued = {1}
    /\ lastOp = Op("init", 0, 0)
    /\ GatewayIdle
    /\ EditorIdle
    /\ BatchIdle
    /\ MemIdle
    /\ AppAt("EDITOR")

MediaNext ==
    \/ TriggerChangeMedia
    \/ TriggerAddSecondMedia
    \/ CancelPicker
    \/ ChooseMediaFile
    \/ SettleMediaFile
    \/ RemoveMediaItem

SpecMedia == MediaInit /\ [][MediaNext]_vars

IsTranslationOf(text, head) ==
    /\ StartsWith(text, head \o <<NL, NL, "[", "E", "N", "]", SP>>)
    /\ Len(text) > Len(head) + 7

ExportSceneLists ==
    {<<[DefaultScene(1) EXCEPT !.narrative = <<"a">>]>>,
     <<[DefaultScene(1) EXCEPT !.narrative = <<"a">>, !.dialogue = <<"a">>],
       [DefaultScene(2) EXCEPT
           !.narrative = Appended(<<"a">>, <<"E">>),
           !.media = <<[url |-> PlaceholderUrl, type |-> "image"],
                       MediaItem([name |-> "fileB", type |-> "video"], "drawn")>>]>>}

ExportInit ==
    /\ \E scenes \in ExportSceneLists, m \in LanguageModes :
          story = setStoryMeta(setScenes(EnteredStory, scenes), "languageMode", m)
    /\ issued = SceneIds(story.scenes)
    /\ lastOp = Op("init", 0, 0)
    /\ GatewayIdle
    /\ EditorIdle
    /\ BatchIdle
    /\ MemIdle
    /\ AppAt("EDITOR")

ExportNext ==
    \/ OnPreview
    \/ SettleTranslation
    \/ OnEdit
    \/ GenerateExport
    \/ SettleExport

SpecExport == ExportInit /\ [][ExportNext]_vars

\* C14: preparing the export content and running generatePDF or generatePPT
\* never changes the Story the store holds: its scenes, with every narrative
\* and dialogue, and its metadata are the same before and after every step
\* of the preview, also when translations are appended to the display scenes.
C14_PreviewLeavesStoryAlone ==
    [][(pv' # pv \/ step' # step) => story' = story]_vars

\* an Arabic-only story was exported with a translation appended to a
\* display narrative that the story holds without it
C14_Witness ==
    /\ step = "PREVIEW"
    /\ story.languageMode = "ar"
    /\ pv.exported = "saved"
    /\ pv.jobs = <<>>
    /\ story.scenes[1].narrative = <<"a">>
    /\ pv.displayScenes # <<>>
    /\ pv.displayScenes[1].narrative = Appended(<<"a">>, <<"E">>)

\* C20: when generatePDF or generatePPT fails at any step, the error is
\* caught and exactly one notice is shown, the store's Story is unchanged,
\* and isGenerating and loadingType of the instance that started the export
\* are reset to false and null, so that its export buttons can be used again.
C20_FailedExportAlertsOnceAndResets ==
    [][\A k \in 1..Len(pv.jobs) :
          (pv'.jobs = Without(pv.jobs, k) /\ pv'.exported = "failed") =>
              /\ pv'.alerts = pv.alerts + 1
              /\ story' = story
              /\ pv.jobs[k].live =>
                    /\ ~pv'.isGenerating
                    /\ pv'.loadingType = "null"
                    /\ ExportUsable']_vars

\* an export of two pages or more failed, one notice was shown, and the
\* export buttons can be used
C20_Witness ==
    /\ ExportUsable
    /\ Len(pv.displayScenes) >= 1
    /\ pv.exported = "failed"
    /\ pv.alerts = 1
    /\ pv.jobs = <<>>
    /\ ~pv.isGenerating
    /\ pv.loadingType = "null"

(***************************************************************************)
(* Drafting and refining the text of scenes that may be deleted            *)
(***************************************************************************)
\* one scene with a narrative, in either language mode
TextInit ==
    /\ \E m \in LanguageModes :
          story = setStoryMeta(updateScene(addScene(EnteredStory, <<>>, 1),
                                           1, "narrative", <<"a">>),
                               "languageMode", m)
    /\ issued = {1}
    /\ lastOp = Op("init", 0, 0)
    /\ GatewayIdle
    /\ EditorIdle
    /\ BatchIdle
    /\ MemIdle
    /\ AppAt("EDITOR")

\* uploading scenes, and deleting scenes
DraftNext ==
    \/ ClickAddMediaScene
    \/ ChooseSceneFile
    \/ CancelPicker
    \/ SettleSceneFile
    \/ SettleDraft
    \/ DeleteScene

SpecDraft == TextInit /\ [][DraftNext]_vars

\* the same with refinements, for a bilingual story
TextNext ==
    \/ ClickAddMediaScene
    \/ ChooseSceneFile
    \/ CancelPicker
    \/ SettleSceneFile
    \/ SettleDraft
    \/ DeleteScene
    \/ ClickRefine
    \/ SettleRefine

\* one scene with a narrative, in a bilingual story
BilingualTextInit ==
    /\ story = updateScene(addScene(EnteredStory, <<>>, 1), 1, "narrative", <<"a">>)
    /\ issued = {1}
    /\ lastOp = Op("init", 0, 0)
    /\ GatewayIdle
    /\ EditorIdle
    /\ BatchIdle
    /\ MemIdle
    /\ AppAt("EDITOR")

SpecText == BilingualTextInit /\ [][TextNext]_vars

\* C15: when a scene was removed while a drafting or a refinement call for
\* it was outstanding, applying the response (updateScene by id) leaves the
\* scene list as it is: the removed scene is not made again and no other
\* scene is modified.
C15_LateResponseLeavesScenesAlone ==
    [][(/\ \/ Len(ed'.drafts) < Len(ed.drafts)
           \/ Len(ed'.refinements) < Len(ed.refinements)
        /\ lastOp'.op = "updateScene"
        /\ lastOp'.a \notin SceneIds(story.scenes)) =>
            story'.scenes = story.scenes]_vars

\* the response of a call for a scene that had been removed was applied
\* while the story holds another scene
C15_Witness ==
    /\ lastOp.op = "updateScene"
    /\ lastOp.a \in issued
    /\ lastOp.a \notin SceneIds(story.scenes)
    /\ story.scenes # <<>>
    /\ Len(ed.drafts) + Len(ed.refinements) < MaxPending

\* C16: on a new-scene image upload the scene is appended to the story with
\* empty narrative and dialogue before the drafting call resolves; when the
\* drafting fails, no scene is taken out of the story, and the scene, unless
\* it was deleted meanwhile, is there afterwards with a fixed error text as
\* its narrative.
C16_FailedDraftKeepsSceneWithErrorText ==
    [][/\ Len(ed'.drafts) > Len(ed.drafts) =>
             LET d == ed'.drafts[Len(ed'.drafts)]
                 new == story'.scenes[Len(story'.scenes)]
             IN  /\ Len(story'.scenes) = Len(story.scenes) + 1
                 /\ SubSeq(story'.scenes, 1, Len(story.scenes)) = story.scenes
                 /\ new.id = d.sceneId
                 /\ new.narrative = EmptyText
                 /\ new.dialogue = EmptyText
       /\ (Len(ed'.drafts) < Len(ed.drafts) /\ lastOp'.b = 1) =>
             /\ Len(story'.scenes) = Len(story.scenes)
             /\ \A k \in 1..Len(story.scenes) :
                   /\ story'.scenes[k].id = story.scenes[k].id
                   /\ story.scenes[k].id = lastOp'.a =>
                         story'.scenes[k].narrative =
                             IF story.languageMode = "ar"
                             THEN <<"a", ".">>
                             ELSE <<"E", ".", NL, "a", ".">>]_vars

\* the drafting of an uploaded scene failed and the scene is in the story
\* with the error text
C16_Witness ==
    /\ lastOp = Op("updateScene", lastOp.a, 1)
    /\ story.languageMode = "bilingual"
    /\ \E k \in 1..Len(story.scenes) :
          /\ story.scenes[k].id = lastOp.a
          /\ story.scenes[k].narrative = <<"E", ".", NL, "a", ".">>
          /\ story.scenes[k].media[1].type = "image"

(***************************************************************************)
(* Refinements of an editor that may be left for the preview and entered   *)
(* again                                                                   *)
(***************************************************************************)
RemountNext ==
    \/ ClickRefine
    \/ SettleRefine
    \/ DeleteScene
    \/ OnPreview
    \/ OnEdit

SpecRemount == DeleteInit /\ [][RemountNext]_vars

\* the refinements outstanding for a scene id and field
InFlight(sceneId, field) ==
    {k \in 1..Len(ed.refinements) :
        ed.refinements[k].sceneId = sceneId /\ ed.refinements[k].field = field}

\* C17: at any time at most one refinement is in flight per (scene id,
\* field) pair, and, in the editor, refiningState names an in-flight
\* refinement exactly while one is outstanding.
C17_OneRefinementAndStateTracksIt ==
    /\ \A sceneId \in Ids, field \in TextFields :
          Cardinality(InFlight(sceneId, field)) <= 1
    /\ step = "EDITOR" =>
          /\ refiningState # <<>> =>
                InFlight(refiningState[1].sceneId, refiningState[1].field) # {}
          /\ ed.refinements # <<>> => refiningState # <<>>

\* C17, its last part: through the editor no refinement is started while
\* refiningState is set
C17_NoStartWhileRefining ==
    [][Len(ed'.refinements) > Len(ed.refinements) => refiningState = <<>>]_vars

\* two refinements of the same field of the same scene are in flight
C17_TwoInFlight ==
    \E sceneId \in Ids, field \in TextFields :
        Cardinality(InFlight(sceneId, field)) = 2

(***************************************************************************)
(* Recording audio for the scenes                                          *)
(***************************************************************************)
\* the delete button beside a scene's audio, its confirm accepted:
\* setAudio(scene.id, '')
DeleteRecording ==
    /\ EditorUsable
    /\ \E k \in 1..Len(story.scenes) :
          /\ story.scenes[k].audioUrl \notin {Undefined, ""}
          /\ Install(setAudio(story, story.scenes[k].id, ""),
                     Op("setAudio", story.scenes[k].id, 0))
    /\ UNCHANGED <<issued, refiningState, step, pv, ed, outsideUi>>

RecordNext ==
    \/ ClickRecord
    \/ MicGranted
    \/ MicDenied
    \/ ClickStop
    \/ RecorderOnStop
    \/ DeleteRecording

SpecRecord == DeleteInit /\ [][RecordNext]_vars

\* C18: at most one audio recording is active at any time: in no reachable
\* state are two MediaRecorders recording, for the same scene or for
\* different ones, also when startRecording is triggered for a second scene
\* while the first microphone acquisition is pending.
C18_AtMostOneRecording == Cardinality(Recording) <= 1

\* two recorders are recording, and the Stop button reaches only the one
\* the ref holds
C18_TwoRecording ==
    /\ Cardinality(Recording) = 2
    /\ ed.mediaRecorderRef = 2
    /\ ed.recordingSceneId # <<>>

\* getUserMedia was rejected in this step
MicDeniedStep ==
    /\ Len(ed'.micRequests) < Len(ed.micRequests)
    /\ Len(ed'.recorders) = Len(ed.recorders)

\* C19: when microphone access is denied in startRecording, a notice is
\* shown, no recorder is started, no scene's audioUrl changes, and
\* recordingSceneId is null afterwards.
C19_DenialLeavesNothingRecording ==
    [][MicDeniedStep =>
          /\ ed'.notices = ed.notices + 1
          /\ ed'.recorders = ed.recorders
          /\ story' = story
          /\ ed'.recordingSceneId = <<>>]_vars

\* C19 without its last part: the denial shows one notice, starts no
\* recorder, changes no scene and leaves recordingSceneId as it was
C19_DenialChangesNothing ==
    [][MicDeniedStep =>
          /\ ed'.notices = ed.notices + 1
          /\ ed'.recorders = ed.recorders
          /\ story' = story
          /\ ed'.recordingSceneId = ed.recordingSceneId
          /\ ed'.mediaRecorderRef = ed.mediaRecorderRef]_vars

\* a request was denied and a notice shown while another scene is recorded
C19_DeniedWhileRecording ==
    /\ ed.notices = 1
    /\ ed.micRequests = <<>>
    /\ ed.recordingSceneId # <<>>
    /\ Cardinality(Recording) = 1

(***************************************************************************)
(* sanitize tried on its own, on texts assembled from letters, white       *)
(* space and comments                                                      *)
(***************************************************************************)
\* <!-- PageHeader a-->, <!--PageFooter-->, <!-- PageBreak -->
HeaderComment == CommentOpen \o <<SP, PageHeader, SP, "a">> \o CommentClose
FooterComment == CommentOpen \o <<PageFooter>> \o CommentClose
BreakComment == CommentOpen \o <<SP, PageBreak, SP>> \o CommentClose
\* <!--PageBreak a-->: a comment of the word with more than white space after it
BreakCommentWithTail == CommentOpen \o <<PageBreak, SP, "a">> \o CommentClose

\* a letter, a word of two letters, white space, and the comments
SanitizePieces ==
    {<<"a">>, <<"E", "E">>, <<SP>>, <<NL>>,
     HeaderComment, FooterComment, BreakComment, BreakCommentWithTail}

\* the texts made of at most n pieces
RECURSIVE SanitizeTexts(_)
SanitizeTexts(n) ==
    IF n = 0 THEN {EmptyText}
    ELSE SanitizeTexts(n - 1) \cup
         {t \o piece : t \in SanitizeTexts(n - 1), piece \in SanitizePieces}

\* sanitize(text), as handleNewSceneUpload calls it on a drafted field
CallSanitize ==
    /\ gw.phase = "idle"
    /\ \E text \in SanitizeTexts(MaxMarkerSegs) :
          gw' = GwCall("sanitize", "ar", text, TRUE, <<sanitize(text)>>)
    /\ UNCHANGED outsideGateway

SanitizeNext ==
    \/ CallSanitize
    \/ GwReturn

SpecSanitize == GatewayInit /\ [][SanitizeNext]_vars

\* the pieces a text was assembled from, first to last
RECURSIVE PiecesOf(_)
PiecesOf(t) ==
    IF t = <<>> THEN <<>>
    ELSE LET piece == CHOOSE x \in SanitizePieces : StartsWith(t, x)
         IN  <<piece>> \o PiecesOf(SubSeq(t, Len(piece) + 1, Len(t)))

RECURSIVE Flatten(_)
Flatten(pieces) == IF pieces = <<>> THEN <<>> ELSE Head(pieces) \o Flatten(Tail(pieces))

\* the lines of the text once the comments of the set are taken out of it,
\* without those whose trimmed length is less than 2
RemainingLines(t, markers) ==
    SelectSeq(Split(Flatten(SelectSeq(PiecesOf(t), LAMBDA x : x \notin markers)), <<NL>>),
              LAMBDA line : Len(Trim(line)) >= 2)

\* the lines of a result ('' has none)
ResultLines(out) == IF out = <<>> THEN <<>> ELSE Split(out, <<NL>>)

\* C21: sanitize(text) removes every embedded control marker (PageHeader /
\* PageFooter / PageBreak comment) and every line whose trimmed length is
\* less than 2, and returns all remaining lines verbatim (character for
\* character) and in their original order.
C21_RemainingLinesVerbatim ==
    (gw.fn = "sanitize" /\ gw.phase = "settled") =>
        ResultLines(gw.out[1]) =
            RemainingLines(gw.text, {HeaderComment, FooterComment, BreakComment,
                                     BreakCommentWithTail})

\* C21 as the code has it: the comments that open with PageHeader or
\* PageFooter and the comment of PageBreak alone are removed, then every line
\* whose trimmed length is less than 2; the remaining lines are returned in
\* their order, verbatim but for the white space before the first and after
\* the last of them.
C21_RemainingLinesTrimmedAtEnds ==
    (gw.fn = "sanitize" /\ gw.phase = "settled") =>
        LET remaining == RemainingLines(gw.text,
                                        {HeaderComment, FooterComment, BreakComment})
            lines == ResultLines(gw.out[1])
            n == Len(remaining)
        IN  /\ Len(lines) = n
            /\ \A k \in 1..n :
                  lines[k] =
                      IF n = 1 THEN Trim(remaining[k])
                      ELSE IF k = 1 THEN TrimStart(remaining[k])
                      ELSE IF k = n THEN TrimEnd(remaining[k])
                      ELSE remaining[k]

\* a marker and a line of one letter were removed, and the line the marker
\* was in was kept
C21_Witness ==
    /\ gw.fn = "sanitize"
    /\ gw.phase = "settled"
    /\ gw.text = <<"E", "E">> \o BreakComment \o <<NL, "a">>
    /\ gw.out = <<<<"E", "E">>>>

(***************************************************************************)
(* The wizard (App.tsx): StoryInput, MethodSelection with its image        *)
(* upload, and the steps between the editor and the preview                *)
(***************************************************************************)
\* what is typed into a field of the form
MetaTexts == {EmptyText, <<SP>>, <<"a">>}

\* isFormValid of a form that asks for the student's name only
isFormValidNameOnly(st) == Trim(st.studentName) # EmptyText

\* StoryInput: story.studentName.trim() !== '' && story.title.trim() !== ''
isFormValid(st) == Trim(st.studentName) # EmptyText /\ Trim(st.title) # EmptyText

\* the inputs and the language toggle of StoryInput: setStoryMeta({...})
TypeMeta ==
    /\ step = "INPUT"
    /\ \/ \E field \in {"studentName", "title"}, value \in MetaTexts :
             Install(setStoryMeta(story, field, value), Op("setStoryMeta", 0, 0))
       \/ \E m \in LanguageModes :
             Install(setStoryMeta(story, "languageMode", m), Op("setStoryMeta", 0, 0))
    /\ UNCHANGED <<issued, outsideStore>>

\* Next Step, disabled unless isFormValid: onNext
NextStep ==
    /\ step = "INPUT"
    /\ isFormValid(story)
    /\ step' = "METHOD_SELECT"
    /\ UNCHANGED <<pv, outsidePreview>>

\* an image file picked in MethodSelection, and the lists of at most n
ImageFile == [name |-> "fileA", type |-> "image"]
FileLists(n) == UNION {[1..k -> {ImageFile}] : k \in 1..n}

\* the uploads and generations being awaited
AppHandlers == Len(app.resizes) + Len(app.generations)

\* "Generate from Photos", disabled while isLoading: fileInputRef.current?.click()
ClickGenerateFromPhotos ==
    /\ step = "METHOD_SELECT"
    /\ ~app.isLoading
    /\ app.picker = "closed"
    /\ app' = [app EXCEPT !.picker = "open"]
    /\ UNCHANGED <<story, issued, lastOp, gw, refiningState, batch, step, pv, mem, ed>>

\* the file dialog is dismissed: no change event
CancelImages ==
    /\ step = "METHOD_SELECT"
    /\ app.picker = "open"
    /\ app' = [app EXCEPT !.picker = "closed"]
    /\ UNCHANGED <<story, issued, lastOp, gw, refiningState, batch, step, pv, mem, ed>>

\* handleAIUpload with files: Promise.all of a resizeImage per file is awaited
ChooseImages ==
    /\ step = "METHOD_SELECT"
    /\ app.picker = "open"
    /\ AppHandlers < MaxPending
    /\ \E files \in FileLists(MaxPicked) :
          app' = [app EXCEPT !.picker = "closed",
                             !.resizes = Append(@, [files |-> files])]
    /\ UNCHANGED <<story, issued, lastOp, gw, refiningState, batch, step, pv, mem, ed>>

\* resizeImage(file): resolved with the data and mime type read back from
\* the canvas, rejected when there is no context or the image does not load
resizeImage(file, canvas) ==
    IF canvas = "drawn"
    THEN Returned(<<[data |-> ToDataURL(file)[4], mimeType |-> ToDataURL(file)[2]]>>)
    ELSE Thrown

\* the n least ids never issued
RECURSIVE LeastFresh(_, _)
LeastFresh(used, n) ==
    IF n = 0 THEN <<>>
    ELSE LET gid == Min(generateId(used))
         IN  <<gid>> \o LeastFresh(used \cup {gid}, n - 1)

\* Promise.all(imagePromises) settles: then onSelectMethod('AI', images), which
\* is handleAIGeneration(images) up to its await, or catch's alert("Failed to
\* process images.") (noted with 2 when a canvas gave no context)
SettleResize ==
    /\ \E k \in 1..Len(app.resizes) :
          \E canvases \in [1..Len(app.resizes[k].files) -> ed.canvases] :
             LET files == app.resizes[k].files
                 resized == [i \in 1..Len(files) |-> resizeImage(files[i], canvases[i])]
                 noContext == \E i \in 1..Len(files) : canvases[i] = "noContext"
             IN  IF \E i \in 1..Len(files) : resized[i].threw
                 THEN /\ app.notices < MaxNotices
                      /\ app' = [app EXCEPT !.resizes = Without(@, k),
                                            !.notices = @ + 1]
                      /\ lastOp' = Op("resizeImage", Len(files), IF noContext THEN 2 ELSE 1)
                 ELSE /\ app' = [app EXCEPT
                                    !.resizes = Without(@, k),
                                    !.isLoading = TRUE,
                                    !.generations = Append(@,
                                        [images |-> [i \in 1..Len(files) |-> resized[i].out[1]],
                                         languageMode |-> story.languageMode])]
                      /\ lastOp' = Op("resizeImage", Len(files), 0)
    /\ UNCHANGED <<story, issued, gw, refiningState, batch, step, pv, mem, ed>>

\* generateStoryFromImages resolves (generateSingleScene hands every failure
\* back as the fallback pair, so it does not reject): setScenes(generatedScenes),
\* setStep(EDITOR), and finally's setIsLoading(false)
SettleGeneration ==
    /\ \E k \in 1..Len(app.generations) :
          LET g == app.generations[k]
              n == Len(g.images)
          IN  /\ Cardinality(generateId(issued)) >= n
              /\ \E resps \in [1..n -> BatchResponses] :
                    LET gids == LeastFresh(issued, n)
                        drafted == [i \in 1..n |-> generateSingleScene(g.languageMode, resps[i])]
                        generatedScenes ==
                            [i \in 1..n |->
                                BatchScene(gids[i], g.images[i],
                                           [narrative |-> drafted[i].out[1],
                                            dialogue |-> drafted[i].out[2]])]
                    IN  /\ Install(setScenes(story, generatedScenes), Op("setScenes", n, 0))
                        /\ issued' = issued \cup {gids[i] : i \in 1..n}
              /\ app' = [app EXCEPT !.generations = Without(@, k),
                                    !.isLoading = FALSE,
                                    !.picker = "closed"]
    /\ step' = "EDITOR"
    /\ pv' = IF step = "PREVIEW" THEN PvCarried(pv, PvUnmounted) ELSE pv
    /\ UNCHANGED <<gw, refiningState, batch, mem, ed>>

\* "Write Manually", disabled while isLoading: handleManualEntry
ManualEntry ==
    /\ step = "METHOD_SELECT"
    /\ ~app.isLoading
    /\ app.picker = "closed"
    /\ \E gid \in {Min(generateId(issued))} :
          /\ Install(addScene(story, <<>>, gid), Op("addScene", gid, 0))
          /\ issued' = issued \cup {gid}
    /\ step' = "EDITOR"
    /\ UNCHANGED <<gw, refiningState, batch, pv, mem, ed, app>>

\* the form is empty, in a browser whose canvas may give no context
WizardInit ==
    /\ story = InitialStory
    /\ issued = {}
    /\ lastOp = Op("init", 0, 0)
    /\ GatewayIdle
    /\ refiningState = <<>>
    /\ ed = [EdInitial EXCEPT !.canvases = CanvasOutcomes]
    /\ BatchIdle
    /\ MemIdle
    /\ AppAt("INPUT")

WizardNext ==
    \/ TypeMeta
    \/ NextStep
    \/ ClickGenerateFromPhotos
    \/ CancelImages
    \/ ChooseImages
    \/ SettleResize
    \/ SettleGeneration
    \/ ManualEntry
    \/ OnPreview
    \/ OnEdit

SpecWizard == WizardInit /\ [][WizardNext]_vars

\* the method is being selected, in a browser whose canvas may give no context
UploadInit ==
    /\ \E m \in LanguageModes : story = setStoryMeta(EnteredStory, "languageMode", m)
    /\ issued = {}
    /\ lastOp = Op("init", 0, 0)
    /\ GatewayIdle
    /\ refiningState = <<>>
    /\ ed = [EdInitial EXCEPT !.canvases = CanvasOutcomes]
    /\ BatchIdle
    /\ MemIdle
    /\ AppAt("METHOD_SELECT")

\* the uploads of MethodSelection and of the editor
UploadNext ==
    \/ ClickGenerateFromPhotos
    \/ CancelImages
    \/ ChooseImages
    \/ SettleResize
    \/ SettleGeneration
    \/ ManualEntry
    \/ ClickAddMediaScene
    \/ ChooseSceneFile
    \/ CancelPicker
    \/ SettleSceneFile
    \/ SettleDraft

SpecUpload == UploadInit /\ [][UploadNext]_vars

\* an image picked for a new scene got no canvas context in this step
SceneFileWithoutContext ==
    /\ Len(ed'.sceneFiles) < Len(ed.sceneFiles)
    /\ lastOp'.op = "addScene"
    /\ lastOp'.b = 2

\* the images picked in MethodSelection were settled in this step, one of
\* them without a canvas context
ImagesWithoutContext ==
    /\ Len(app'.resizes) < Len(app.resizes)
    /\ lastOp'.op = "resizeImage"
    /\ lastOp'.b = 2

\* C22, the editor's part: the new scene holds the file as it was read, and
\* its text is being drafted
C22_EditorUsesOriginal ==
    [][SceneFileWithoutContext =>
          \E k \in 1..Len(ed.sceneFiles) :
             /\ ed'.sceneFiles = Without(ed.sceneFiles, k)
             /\ story'.scenes =
                   Append(story.scenes,
                          NewScene(lastOp'.a, ReadAsDataURL(ed.sceneFiles[k].item), "image"))
             /\ Len(ed'.drafts) = Len(ed.drafts) + 1]_vars

\* C22: when canvas/context acquisition fails while resizing an uploaded
\* image, the original unprocessed asset is used and the user's workflow
\* continues, on both upload paths: the editor's processMediaFile (the new
\* scene holds the file as read and is drafted) and the batch upload's
\* resizeImage (no failure notice, and the generation starts with an image
\* per picked file).
C22_CanvasFailureFallsBackToOriginal ==
    [][/\ SceneFileWithoutContext =>
             \E k \in 1..Len(ed.sceneFiles) :
                /\ ed'.sceneFiles = Without(ed.sceneFiles, k)
                /\ story'.scenes =
                      Append(story.scenes,
                             NewScene(lastOp'.a, ReadAsDataURL(ed.sceneFiles[k].item),
                                      "image"))
                /\ Len(ed'.drafts) = Len(ed.drafts) + 1
       /\ ImagesWithoutContext =>
             /\ app'.notices = app.notices
             /\ Len(app'.generations) = Len(app.generations) + 1
             /\ Len(app'.generations[Len(app'.generations)].images) = lastOp'.a]_vars

\* an image of a new scene got no context and the scene was added
C22_EditorFellBack ==
    /\ lastOp.op = "addScene"
    /\ lastOp.b = 2
    /\ ed.drafts # <<>>

(***************************************************************************)
(* Adding scenes in the editor: empty ones, and ones from an uploaded file *)
(***************************************************************************)
\* "Add Empty Scene": addScene()
ClickAddEmptyScene ==
    /\ EditorUsable
    /\ Len(story.scenes) < MaxScenes
    /\ generateId(issued) # {}
    /\ LET gid == Min(generateId(issued))
       IN  /\ Install(addScene(story, <<>>, gid), Op("addScene", gid, 0))
           /\ issued' = issued \cup {gid}
    /\ UNCHANGED <<refiningState, step, pv, ed, outsideUi>>

AddNext ==
    \/ ClickAddEmptyScene
    \/ ClickAddMediaScene
    \/ ChooseSceneFile
    \/ CancelPicker
    \/ SettleSceneFile
    \/ SettleDraft
    \/ DeleteScene

SpecAdd == TextInit /\ [][AddNext]_vars

\* C23: addScene() with no argument appends exactly one scene at the end of
\* story.scenes with a fresh id, exactly one placeholder image media item,
\* empty narrative and dialogue, isAiGenerated false and no audioUrl, leaving
\* all existing scenes and all metadata unchanged; addScene(s) appends s
\* itself (here the newScene of handleNewSceneUpload).
C23_AddSceneAppendsOne ==
    [][(lastOp'.op = "addScene" /\ story' # story) =>
          LET added == story'.scenes[Len(story'.scenes)]
          IN  /\ Len(story'.scenes) = Len(story.scenes) + 1
              /\ SubSeq(story'.scenes, 1, Len(story.scenes)) = story.scenes
              /\ [story' EXCEPT !.scenes = story.scenes] = story
              /\ added.id = lastOp'.a
              /\ added.id \notin issued
              /\ lastOp'.b = 0 =>
                    /\ added.media = <<[url |-> PlaceholderUrl, type |-> "image"]>>
                    /\ added.narrative = EmptyText
                    /\ added.dialogue = EmptyText
                    /\ added.isAiGenerated = FALSE
                    /\ added.audioUrl = Undefined
              /\ lastOp'.b # 0 =>
                    \E k \in 1..Len(ed.sceneFiles), canvas \in ed.canvases :
                        /\ ed'.sceneFiles = Without(ed.sceneFiles, k)
                        /\ added = NewScene(lastOp'.a,
                                            processMediaFile(ed.sceneFiles[k].item, canvas),
                                            ed.sceneFiles[k].item.type)]_vars

\* a video scene was added after an empty one, in an Arabic-only story
C23_Witness ==
    /\ lastOp.op = "addScene"
    /\ lastOp.b = 1
    /\ story.languageMode = "ar"
    /\ Len(story.scenes) = 2
    /\ story.scenes[1] = DefaultScene(story.scenes[1].id)
    /\ story.scenes[2].media[1].type = "video"

\* C24: a scene's isAiGenerated flag is true only if its narrative/dialogue
\* text originated from a successful Gateway drafting result: the flag of a
\* scene becomes true only in the step that settles a drafting of that scene
\* which succeeded; scenes created manually, scenes whose drafting failed,
\* and scenes created from video have isAiGenerated false.
C24_FlagOnlyFromSuccessfulDraft ==
    [][\A k \in 1..Len(story'.scenes) :
          LET scene == story'.scenes[k]
              before == FindScene(story, scene.id)
          IN  (scene.isAiGenerated /\ (before = <<>> \/ ~before[1].isAiGenerated)) =>
                  /\ Len(ed'.drafts) < Len(ed.drafts)
                  /\ lastOp'.op = "updateScene"
                  /\ lastOp'.a = scene.id
                  /\ lastOp'.b = 0
                  /\ scene.media[1].type = "image"]_vars

\* C25: whenever recordingSceneId is non-null, the scene with that id is
\* present in the story, so that its Stop control is rendered and the
\* recording can be stopped and another one started.
C25_RecordingSceneIsPresent ==
    (step = "EDITOR" /\ ed.recordingSceneId # <<>>) =>
        FindScene(story, ed.recordingSceneId[1]) # <<>>

\* the scene being recorded was deleted: no scene shows Stop, none shows
\* Record, and the recorder goes on recording
C25_NoStopAndNoRecord ==
    /\ step = "EDITOR"
    /\ ed.recordingSceneId # <<>>
    /\ FindScene(story, ed.recordingSceneId[1]) = <<>>
    /\ story.scenes # <<>>
    /\ ~ENABLED ClickStop
    /\ ~ENABLED ClickRecord
    /\ Recording # {}

(***************************************************************************)
(* Typing into a field while its refinement is outstanding                 *)
(***************************************************************************)
\* what a textarea holds after a key stroke
TypedTexts == {EmptyText, <<"a">>, <<"a", "a">>}

\* the onChange of a scene's textarea, which is never disabled:
\* updateScene(scene.id, field, e.target.value)
TypeSceneText ==
    /\ EditorUsable
    /\ \E k \in 1..Len(story.scenes), field \in TextFields, value \in TypedTexts :
          /\ value # story.scenes[k][field]
          /\ Install(updateScene(story, story.scenes[k].id, field, value),
                     Op("updateScene", story.scenes[k].id, 0))
    /\ UNCHANGED <<issued, refiningState, step, pv, ed, outsideUi>>

TypeNext ==
    \/ TypeSceneText
    \/ ClickRefine
    \/ SettleRefine

SpecType == DeleteInit /\ [][TypeNext]_vars

\* C26: text the user types into a scene field while a refinement of that
\* same field is outstanding is not lost: when the refinement settles
\* (success or failure) and the field no longer holds the text the
\* refinement was triggered with, the field keeps what it holds.
C26_TypedTextSurvivesRefinement ==
    [][\A k \in 1..Len(ed.refinements) :
          LET r == ed.refinements[k]
              before == FindScene(story, r.sceneId)
              after == FindScene(story', r.sceneId)
          IN  (/\ ed'.refinements = Without(ed.refinements, k)
               /\ before # <<>>
               /\ before[1][r.field] # r.text) =>
                  after[1][r.field] = before[1][r.field]]_vars

\* C27: once the wizard has left METHOD_SELECT, the scene list is never
\* replaced wholesale by a batch-generation result: every setScenes is called
\* while the step is METHOD_SELECT (and, the call being followed by
\* setStep(EDITOR), at most once), also when the user picks files for AI
\* generation and then selects manual entry before the images are resized or
\* the drafting finishes.
C27_SetScenesOnlyWhileSelecting ==
    [][(lastOp'.op = "setScenes" /\ story' # story) => step = "METHOD_SELECT"]_vars

\* the manual scene of the editor was replaced by generated scenes
C27_ManualSceneReplaced ==
    /\ step = "EDITOR"
    /\ lastOp.op = "setScenes"
    /\ 1 \in issued
    /\ 1 \notin SceneIds(story.scenes)
    /\ \A k \in 1..Len(story.scenes) : story.scenes[k].isAiGenerated

(***************************************************************************)
(* The preview of a story a refinement of which is still awaited: the      *)
(* late updateScene gives story.scenes a new array, and the effect of      *)
(* PreviewAndPDF runs prepareContent again beside the run in flight        *)
(***************************************************************************)
\* a translateText call of a run that a later run of the effect has followed
\* settles; when the run ends it calls setDisplayScenes and setIsTranslating
SettleEarlierTranslation ==
    /\ step = "PREVIEW"
    /\ \E j \in 1..Len(pv.earlier), resp \in TranslateResponses :
          \E k \in 1..Len(pv.earlier[j].tasks) :
              LET run == pv.earlier[j]
                  ended == PrepareSettle(
                              [pv EXCEPT !.running = TRUE,
                                         !.source = run.source,
                                         !.tasks = [run.tasks EXCEPT ![k] =
                                             TaskSettle(run.source[k], run.tasks[k], resp)]])
              IN  /\ run.tasks[k].pc \in TextFields
                  /\ pv' = IF ended.running
                           THEN [pv EXCEPT !.earlier[j].tasks = ended.tasks]
                           ELSE [pv EXCEPT !.earlier = Without(@, j),
                                           !.displayScenes = ended.displayScenes,
                                           !.isTranslating = FALSE]
    /\ UNCHANGED <<step, outsidePreview>>

OverlapNext ==
    \/ ClickRefine
    \/ SettleRefine
    \/ OnPreview
    \/ SettleTranslation
    \/ SettleEarlierTranslation
    \/ OnEdit

SpecOverlap == TextInit /\ [][OverlapNext]_vars

\* the scenes shown were computed from the scenes st holds, in its language mode
PreparedFrom(shown, st) ==
    /\ Len(shown) = Len(st.scenes)
    /\ \A k \in 1..Len(shown) :
          /\ \A f \in TextFields :
                \/ shown[k][f] = st.scenes[k][f]
                \/ /\ st.languageMode = "ar"
                   /\ IsTranslationOf(shown[k][f], st.scenes[k][f])
          /\ [shown[k] EXCEPT !.narrative = EmptyText, !.dialogue = EmptyText]
                = [st.scenes[k] EXCEPT !.narrative = EmptyText, !.dialogue = EmptyText]

\* C28: in the preview, whenever the export buttons are enabled (isTranslating
\* and isGenerating both false) after the preparation effect has run, no
\* translation run is still in flight and displayScenes was computed from the
\* current story.scenes and language mode; an older overlapping run never
\* overwrites the result of a newer one.
C28_EnabledExportShowsCurrentStory ==
    ExportUsable =>
        /\ ~pv.running
        /\ pv.earlier = <<>>
        /\ PreparedFrom(pv.displayScenes, story)

\* the buttons are enabled, nothing is in flight any more, and the preview
\* shows what the older run made of the text the story no longer holds
C28_OlderRunShown ==
    /\ ExportUsable
    /\ ~pv.running
    /\ pv.earlier = <<>>
    /\ ~PreparedFrom(pv.displayScenes, story)

\* the buttons are enabled by the older run while the newer one is in flight
C28_EnabledWhileTranslating ==
    /\ ExportUsable
    /\ pv.running
    /\ pv.earlier = <<>>

(***************************************************************************)
(* The order of the wizard's steps, from the empty form on                 *)
(***************************************************************************)
\* the moves of step the app makes
StepMoves ==
    {<<"INPUT", "METHOD_SELECT">>, <<"METHOD_SELECT", "EDITOR">>,
     <<"EDITOR", "PREVIEW">>, <<"PREVIEW", "EDITOR">>}

\* C29: the wizard step only moves INPUT -> METHOD_SELECT -> EDITOR and then
\* between EDITOR and PREVIEW; it never returns to INPUT or METHOD_SELECT, and
\* in every state where the step is not INPUT both studentName and title are
\* non-blank.
C29_StepsForwardWithNameAndTitle ==
    [][/\ step' # step => <<step, step'>> \in StepMoves
       /\ step' # "INPUT" => (~IsBlank(story'.studentName) /\ ~IsBlank(story'.title))]_vars

\* the preview of a generated story is shown, four moves after the form
C29_Witness ==
    /\ step = "PREVIEW"
    /\ lastOp.op = "setScenes"
    /\ Len(story.scenes) = MaxPicked
    /\ story.languageMode = "ar"

(***************************************************************************)
(* A new scene made from a video file                                      *)
(***************************************************************************)
\* the scenes whose first media item is a video
VideoScenes(st) ==
    {k \in 1..Len(st.scenes) :
        Len(st.scenes[k].media) > 0 /\ st.scenes[k].media[1].type = "video"}

\* C30: creating a new scene from a video upload makes no Gateway call: the
\* scene is appended with that single video media item, its narrative and
\* dialogue stay empty and isAiGenerated stays false, and the analyzing flag
\* is cleared when the handler finishes.
C30_VideoSceneIsNotDrafted ==
    [][/\ (/\ lastOp'.op = "addScene"
           /\ story' # story
           /\ Len(story'.scenes) \in VideoScenes(story')) =>
              /\ ed'.drafts = ed.drafts
              /\ \E k \in 1..Len(ed.sceneFiles) :
                    /\ ed.sceneFiles[k].item.type = "video"
                    /\ ed'.sceneFiles = Without(ed.sceneFiles, k)
                    /\ ed.sceneFiles[k].live => ~ed'.isAnalyzing
                    /\ story'.scenes = Append(story.scenes,
                          [id |-> lastOp'.a,
                           media |-> <<[url |-> ReadAsDataURL(ed.sceneFiles[k].item),
                                        type |-> "video"]>>,
                           narrative |-> EmptyText,
                           dialogue |-> EmptyText,
                           isAiGenerated |-> FALSE,
                           audioUrl |-> Undefined])
       /\ \A k \in VideoScenes(story') :
              /\ story'.scenes[k].narrative = EmptyText
              /\ story'.scenes[k].dialogue = EmptyText
              /\ ~story'.scenes[k].isAiGenerated
       /\ \A k \in 1..Len(ed'.drafts) :
              \A j \in VideoScenes(story') :
                  ed'.drafts[k].sceneId # story'.scenes[j].id]_vars

\* a video was added after an image whose drafting has settled: the image's
\* scene is flagged, the video's scene is empty, and nothing is awaited
C30_Witness ==
    /\ Len(story.scenes) = MaxScenes
    /\ lastOp.op = "addScene"
    /\ lastOp.b = 1
    /\ Len(story.scenes) \in VideoScenes(story)
    /\ story.scenes[Len(story.scenes)].id = lastOp.a
    /\ \E k \in 1..Len(story.scenes) : story.scenes[k].isAiGenerated
    /\ ed.drafts = <<>>
    /\ ~ed.isAnalyzing


====
